---- MODULE Spec2Model ----
(***************************************************************************)
(* State-machine model of the QPanda-lite noisy simulator                  *)
(* (QPandaLiteCpp/src/noisy_simulator.cpp): the opcode recorder, the three *)
(* noise-insertion policies, the replay loop execute_once and the shot     *)
(* loop.                                                                   *)
(*                                                                         *)
(* Numbers.  A probability or a uniform draw is an integer numerator over  *)
(* Den.  An angle is an integer count of quarter turns (pi/2).  A complex  *)
(* amplitude is an element <<a,b,c,d>> = a + b*w + c*w^2 + d*w^3 of Z[w],  *)
(* w = exp(i*pi/4), and the state vector carries one common exponent e:    *)
(* psi[i] = state[i] / sqrt(2)^e.                                          *)
(***************************************************************************)
EXTENDS Integers, Sequences, FiniteSets, TLC

VARIABLES
    policy,                     \* which class was constructed
    nqubit,                     \* NoisySimulator::nqubit
    noise,                      \* NoisySimulator::noise (global map)
    gate_dependent_noise,       \* NoisySimulator_GateDependent map
    gate_error1q,               \* NoisySimulator_GateSpecificError map
    gate_error2q,               \* NoisySimulator_GateSpecificError map
    measurement_error_matrices, \* readout error pairs
    opcodes,                    \* the noisy opcode stream
    simulator,                  \* NoiseSimulatorImpl: total_qubit, state
    measure_qubits,             \* plan set by measure()
    measure_map,                \* bit-packing map of the plan
    lastCall,                   \* name of the last API call made
    result,                     \* how that call ended: "ok" or the error
    ret,                        \* value returned by that call
    shotlog                     \* per-shot record of the replays of that call

vars == <<policy, nqubit, noise, gate_dependent_noise, gate_error1q,
          gate_error2q, measurement_error_matrices, opcodes, simulator,
          measure_qubits, measure_map, lastCall, result, ret, shotlog>>

config == <<policy, nqubit, noise, gate_dependent_noise, gate_error1q,
            gate_error2q, measurement_error_matrices>>

\* ------------------------------------------------------------------ bounds
MaxOps == 2        \* recording calls that reach the stream
MaxShots == 2      \* shots argument of measure_shots
MaxDraws == 2      \* draws of the uniform source one call may consume
MaxReadout == 4    \* further draws the readout loops of one call may consume

\* Denominator of probabilities and draws; a multiple of 3 and of 4 so
\* that p/3, 2p/3 and sqrt(1 - 1/2), sqrt(1 - 3/4) are exact.
Den == 3 * 4

\* ------------------------------------------------------------- sequences
SeqMap(F(_), s) == [i \in 1..Len(s) |-> F(s[i])]

RECURSIVE SeqConcat(_)
SeqConcat(ss) == IF ss = <<>> THEN <<>> ELSE Head(ss) \o SeqConcat(Tail(ss))

Range(s) == {s[i] : i \in 1..Len(s)}

IsPrefix(s, t) == Len(s) <= Len(t) /\ SubSeq(t, 1, Len(s)) = s

\* The elements of a finite set of integers in increasing order.
RECURSIVE SortedSeq(_)
SortedSeq(S) ==
    IF S = {} THEN <<>>
    ELSE LET m == CHOOSE a \in S : \A b \in S : a <= b
         IN <<m>> \o SortedSeq(S \ {m})

\* ------------------------------------------------------------------- tags
\* enum class NoiseType, in declaration order (the order std::map iterates)
NoiseTypes == <<"Depolarizing", "Damping", "BitFlip", "PhaseFlip",
                "TwoQubitDepolarizing">>

NoiseRank(t) == CHOOSE i \in 1..Len(NoiseTypes) : NoiseTypes[i] = t

Gates1q == {"IDENTITY", "HADAMARD", "U22", "X", "Y", "Z", "SX", "RX", "RY",
            "RZ", "RPHI90", "RPHI180", "RPHI"}
Gates2q == {"CZ", "SWAP", "XY", "ISWAP", "CNOT"}
Gates3q == {"TOFFOLI", "CSWAP"}
SupportOperationType == Gates1q \cup Gates2q \cup Gates3q

gate_qubit_count(gateType) ==
    IF gateType \in Gates1q THEN 1
    ELSE IF gateType \in Gates2q THEN 2
    ELSE 3

\* Result of a name lookup: the tag, or the error the lookup throws.
string_to_SupportOperationType(gate_str) ==
    IF gate_str \in SupportOperationType
    THEN [err |-> "ok", val |-> gate_str]
    ELSE [err |-> "RuntimeError: Failed to handle gate_str", val |-> "none"]

string_to_NoiseType(noise_str) ==
    CASE noise_str = "depolarizing" -> [err |-> "ok", val |-> "Depolarizing"]
      [] noise_str = "damping" -> [err |-> "ok", val |-> "Damping"]
      [] noise_str = "bitflip" -> [err |-> "ok", val |-> "BitFlip"]
      [] noise_str = "phaseflip" -> [err |-> "ok", val |-> "PhaseFlip"]
      [] noise_str = "twoqubit_depolarizing" ->
             [err |-> "ok", val |-> "TwoQubitDepolarizing"]
      [] OTHER -> [err |-> "RuntimeError: Failed to handle noise_str",
                   val |-> "none"]

\* ---------------------------------------------------------------- opcodes
OpcodeType(op_, qubits_, parameters_, dagger_, global_controller_) ==
    [op |-> op_, qubits |-> qubits_, parameters |-> parameters_,
     dagger |-> dagger_, global_controller |-> global_controller_]

\* std::map<NoiseType,double> iterated in key order: the (type, p) pairs.
NoiseEntries(m) ==
    LET ks == SortedSeq({NoiseRank(t) : t \in DOMAIN m})
    IN [i \in 1..Len(ks) |-> <<NoiseTypes[ks[i]], m[NoiseTypes[ks[i]]]>>]

\* ------------------------------------------------------- loading the maps
\* NoisySimulator::_load_noise: four find() calls, nothing else is read.
_load_noise(noise_description) ==
    LET pick == [t \in {"depolarizing", "damping", "bitflip", "phaseflip"} |->
                    string_to_NoiseType(t).val]
        have == {t \in DOMAIN pick : t \in DOMAIN noise_description}
    IN [nt \in {pick[t] : t \in have} |->
           noise_description[CHOOSE t \in have : pick[t] = nt]]

\* The inner loop shared by the gate-dependent and gate-specific loaders.
LoadNoiseProbabilities(noise_type) ==
    [nt \in {string_to_NoiseType(s).val : s \in DOMAIN noise_type} |->
        noise_type[CHOOSE s \in DOMAIN noise_type :
                       string_to_NoiseType(s).val = nt]]

_load_gate_dependent_noise(gate_noise_description) ==
    [g \in DOMAIN gate_noise_description |->
        LoadNoiseProbabilities(gate_noise_description[g])]

_load_gate_error1q(gate_error_description) ==
    [k \in DOMAIN gate_error_description |->
        LoadNoiseProbabilities(gate_error_description[k])]

_load_gate_error2q(gate_error_description) ==
    [k \in DOMAIN gate_error_description |->
        LoadNoiseProbabilities(gate_error_description[k])]

\* The first error raised while a constructor loads description d, or "ok".
NoiseMapError(noise_type) ==
    IF \E s \in DOMAIN noise_type : string_to_NoiseType(s).err # "ok"
    THEN "RuntimeError: Failed to handle noise_str" ELSE "ok"

_load_gate_dependent_noise_err(gate_noise_description) ==
    IF \E g \in DOMAIN gate_noise_description :
           \/ string_to_SupportOperationType(g).err # "ok"
           \/ NoiseMapError(gate_noise_description[g]) # "ok"
    THEN "RuntimeError: Failed to handle string" ELSE "ok"

_load_gate_error1q_err(gate_error_description) ==
    IF \E k \in DOMAIN gate_error_description :
           \/ string_to_SupportOperationType(k[1]).err # "ok"
           \/ NoiseMapError(gate_error_description[k]) # "ok"
    THEN "RuntimeError: Failed to handle string" ELSE "ok"

_load_gate_error2q_err(gate_error_description) ==
    IF \E k \in DOMAIN gate_error_description :
           \/ string_to_SupportOperationType(k[1]).err # "ok"
           \/ (gate_qubit_count(k[1]) <= 2
                 /\ NoiseMapError(gate_error_description[k]) # "ok")
    THEN "RuntimeError: Failed to handle string"
    ELSE IF \E k \in DOMAIN gate_error_description :
                gate_qubit_count(k[1]) > 2
         THEN "InvalidArgument" ELSE "ok"

\* --------------------------------------------------------- noise policies
\* Each returns the stream after the call and the error it ended with.
\* The stream is the one left behind when the exception propagates.
\* Variant: every global noise opcode lands on the first qubit only.
_insert_global_error_first_qubit(ops, qubits) ==
    [ops |-> ops \o [i \in 1..Len(NoiseEntries(noise)) |->
                        OpcodeType(NoiseEntries(noise)[i][1], <<qubits[1]>>,
                                   <<NoiseEntries(noise)[i][2]>>, FALSE, <<>>)],
     err |-> "ok"]

_insert_global_error(ops, qubits) ==
    [ops |-> ops \o [i \in 1..Len(NoiseEntries(noise)) |->
                        OpcodeType(NoiseEntries(noise)[i][1], qubits,
                                   <<NoiseEntries(noise)[i][2]>>, FALSE, <<>>)],
     err |-> "ok"]

\* Variant: a TwoQubitDepolarizing entry is recorded on two qubits only.
_insert_generic_error_paired(ops, qubits, generic_noise_map) ==
    ops \o SelectSeq(
               [i \in 1..Len(NoiseEntries(generic_noise_map)) |->
                   OpcodeType(NoiseEntries(generic_noise_map)[i][1], qubits,
                              <<NoiseEntries(generic_noise_map)[i][2]>>,
                              FALSE, <<>>)],
               LAMBDA oc : oc.op # "TwoQubitDepolarizing"
                           \/ Len(oc.qubits) = 2)

_insert_generic_error(ops, qubits, generic_noise_map) ==
    ops \o [i \in 1..Len(NoiseEntries(generic_noise_map)) |->
               OpcodeType(NoiseEntries(generic_noise_map)[i][1], qubits,
                          <<NoiseEntries(generic_noise_map)[i][2]>>,
                          FALSE, <<>>)]

NoisySimulator_insert_error(ops, qubits, gate_type) ==
    _insert_global_error(ops, qubits)

_insert_gate_dependent_error(ops, qubits, gateType) ==
    IF DOMAIN gate_dependent_noise = {} THEN ops
    ELSE IF gateType \in DOMAIN gate_dependent_noise
         THEN _insert_generic_error(ops, qubits, gate_dependent_noise[gateType])
         ELSE ops

\* Variant: the gate-dependent entries go in before the global ones.
GateDependent_insert_error_swapped(ops, qubits, gateType) ==
    _insert_global_error(_insert_gate_dependent_error(ops, qubits, gateType),
                         qubits)

GateDependent_insert_error(ops, qubits, gateType) ==
    LET g == _insert_global_error(ops, qubits)
    IN [ops |-> _insert_gate_dependent_error(g.ops, qubits, gateType),
        err |-> g.err]

_insert_gate_error1q(ops, gateType, qn) ==
    IF DOMAIN gate_error1q = {} THEN ops
    ELSE IF <<gateType, qn>> \in DOMAIN gate_error1q
         THEN _insert_generic_error(ops, <<qn>>, gate_error1q[<<gateType, qn>>])
         ELSE ops

\* The partner qubits q' of the keys (gateType, (qn1, q')), in map order.
CrosstalkPartners(gateType, qn1) ==
    SortedSeq({k[2][2] : k \in {kk \in DOMAIN gate_error2q :
                                   kk[1] = gateType /\ kk[2][1] = qn1}})

\* Variant: a 2-qubit lookup that misses falls back to the reversed pair.
_insert_gate_error2q_unordered(ops, gateType, qn1, qn2) ==
    IF DOMAIN gate_error2q = {} THEN ops
    ELSE IF qn2 = -1
    THEN ops \o SeqConcat(
             [i \in 1..Len(CrosstalkPartners(gateType, qn1)) |->
                 _insert_generic_error(<<>>,
                     <<qn1, CrosstalkPartners(gateType, qn1)[i]>>,
                     gate_error2q[<<gateType,
                         <<qn1, CrosstalkPartners(gateType, qn1)[i]>>>>])])
    ELSE IF <<gateType, <<qn1, qn2>>>> \in DOMAIN gate_error2q
         THEN _insert_generic_error(ops, <<qn1, qn2>>,
                                    gate_error2q[<<gateType, <<qn1, qn2>>>>])
         ELSE IF <<gateType, <<qn2, qn1>>>> \in DOMAIN gate_error2q
         THEN _insert_generic_error(ops, <<qn1, qn2>>,
                                    gate_error2q[<<gateType, <<qn2, qn1>>>>])
         ELSE ops

\* qn2 = -1 asks for the crosstalk scan of a 1-qubit gate.
_insert_gate_error2q(ops, gateType, qn1, qn2) ==
    IF DOMAIN gate_error2q = {} THEN ops
    ELSE IF qn2 = -1
    THEN ops \o SeqConcat(
             [i \in 1..Len(CrosstalkPartners(gateType, qn1)) |->
                 _insert_generic_error(<<>>,
                     <<qn1, CrosstalkPartners(gateType, qn1)[i]>>,
                     gate_error2q[<<gateType,
                         <<qn1, CrosstalkPartners(gateType, qn1)[i]>>>>])])
    ELSE IF <<gateType, <<qn1, qn2>>>> \in DOMAIN gate_error2q
         THEN _insert_generic_error(ops, <<qn1, qn2>>,
                                    gate_error2q[<<gateType, <<qn1, qn2>>>>])
         ELSE ops

\* Variant: for a 1-qubit gate the crosstalk scan runs before the 1-qubit
\* lookup.
GateSpecificError_insert_error_crosstalk_first(ops, qubits, gateType) ==
    LET g == _insert_global_error(ops, qubits)
        gate_qcount == gate_qubit_count(gateType)
    IN CASE gate_qcount = 1 ->
              [ops |-> _insert_gate_error1q(
                           _insert_gate_error2q(g.ops, gateType, qubits[1], -1),
                           gateType, qubits[1]),
               err |-> "ok"]
         [] gate_qcount = 2 ->
              [ops |-> _insert_gate_error1q(
                           _insert_gate_error1q(
                               _insert_gate_error2q(g.ops, gateType,
                                                    qubits[1], qubits[2]),
                               gateType, qubits[1]),
                           gateType, qubits[2]),
               err |-> "ok"]
         [] OTHER -> [ops |-> g.ops,
                      err |-> "RuntimeError: gate qubit count"]

GateSpecificError_insert_error(ops, qubits, gateType) ==
    LET g == _insert_global_error(ops, qubits)
        gate_qcount == gate_qubit_count(gateType)
    IN CASE gate_qcount = 1 ->
              [ops |-> _insert_gate_error2q(
                           _insert_gate_error1q(g.ops, gateType, qubits[1]),
                           gateType, qubits[1], -1),
               err |-> "ok"]
         [] gate_qcount = 2 ->
              [ops |-> _insert_gate_error1q(
                           _insert_gate_error1q(
                               _insert_gate_error2q(g.ops, gateType,
                                                    qubits[1], qubits[2]),
                               gateType, qubits[1]),
                           gateType, qubits[2]),
               err |-> "ok"]
         [] OTHER -> [ops |-> g.ops,
                      err |-> "RuntimeError: gate qubit count"]

\* Virtual dispatch of insert_error on the constructed class.
insert_error(ops, qubits, gateType) ==
    CASE policy = "Global" -> NoisySimulator_insert_error(ops, qubits, gateType)
      [] policy = "GateDependent" ->
             GateDependent_insert_error(ops, qubits, gateType)
      [] policy = "GateSpecific" ->
             GateSpecificError_insert_error(ops, qubits, gateType)

\* ------------------------------------------------ amplitudes: Z[w]/sqrt2^e
ZERO == <<0, 0, 0, 0>>
ONE == <<1, 0, 0, 0>>
IM == <<0, 0, 1, 0>>

ZAdd(p, q) == <<p[1] + q[1], p[2] + q[2], p[3] + q[3], p[4] + q[4]>>
ZNeg(p) == <<-p[1], -p[2], -p[3], -p[4]>>
ZMul(p, q) ==
    <<p[1]*q[1] - p[2]*q[4] - p[3]*q[3] - p[4]*q[2],
      p[1]*q[2] + p[2]*q[1] - p[3]*q[4] - p[4]*q[3],
      p[1]*q[3] + p[2]*q[2] + p[3]*q[1] - p[4]*q[4],
      p[1]*q[4] + p[2]*q[3] + p[3]*q[2] + p[4]*q[1]>>
ZConj(p) == <<p[1], -p[4], -p[3], -p[2]>>

\* p * sqrt(2), and p / sqrt(2) where that is exact
ZMulSqrt2(p) == <<p[2] - p[4], p[1] + p[3], p[2] + p[4], p[3] - p[1]>>
ZDivisible(p) == (p[2] - p[4]) % 2 = 0 /\ (p[1] + p[3]) % 2 = 0
ZDivSqrt2(p) == LET t == ZMulSqrt2(p)
                IN <<t[1] \div 2, t[2] \div 2, t[3] \div 2, t[4] \div 2>>

RECURSIVE ZMulSqrt2Pow(_, _)
ZMulSqrt2Pow(p, k) == IF k = 0 THEN p ELSE ZMulSqrt2Pow(ZMulSqrt2(p), k - 1)

\* w^m for any integer m
WPow(m) ==
    LET r == m % 8
        u == [j \in 1..4 |-> IF j = (r % 4) + 1 THEN 1 ELSE 0]
    IN IF r < 4 THEN u ELSE ZNeg(u)

\* 2*cos(m*pi/4) and 2*sin(m*pi/4)
Cos2(m) == ZAdd(WPow(m), WPow(-m))
Sin2(m) == ZNeg(ZMul(IM, ZAdd(WPow(m), ZNeg(WPow(-m)))))

\* |p|^2 = u + v*sqrt(2), returned as <<u, v>>
abs_sqr(p) == <<p[1]*p[1] + p[2]*p[2] + p[3]*p[3] + p[4]*p[4],
                p[1]*p[2] + p[2]*p[3] + p[3]*p[4] - p[4]*p[1]>>

\* sign test of a + b*sqrt(2) for integers a, b
Sqrt2Pos(a, b) ==
    \/ a >= 0 /\ b >= 0 /\ (a > 0 \/ b > 0)
    \/ a > 0 /\ b < 0 /\ a * a > 2 * b * b
    \/ a < 0 /\ b > 0 /\ 2 * b * b > a * a

RECURSIVE pow2(_)
pow2(k) == IF k = 0 THEN 1 ELSE 2 * pow2(k - 1)

Bit(i, q) == (i \div pow2(q)) % 2

\* Bring the common exponent down as far as every amplitude allows.
RECURSIVE Reduce(_, _)
Reduce(st, e) ==
    IF e > 0 /\ \A i \in DOMAIN st : ZDivisible(st[i])
    THEN Reduce([i \in DOMAIN st |-> ZDivSqrt2(st[i])], e - 1)
    ELSE [state |-> st, e |-> e]

\* ------------------------------------------------- StatevectorSimulator
max_qubit_num == 30

init_n_qubit(n) ==
    [total_qubit |-> n,
     state |-> [i \in 0..(pow2(n) - 1) |-> IF i = 0 THEN ONE ELSE ZERO],
     e |-> 0]

\* A 2x2 matrix is <<m00, m01, m10, m11>> over sqrt(2)^e.
Dagger2(m) == <<ZConj(m[1]), ZConj(m[3]), ZConj(m[2]), ZConj(m[4])>>

Controlled(i, cs) == \A k \in 1..Len(cs) : Bit(i, cs[k]) = 1

\* Single-qubit unitary m/sqrt(2)^me on qubit q under control mask cs.
Apply1q(sim, q, m, me, cs) ==
    LET st == sim.state
        new == [i \in DOMAIN st |->
                  IF Controlled(i, cs)
                  THEN LET i0 == i - Bit(i, q) * pow2(q)
                           i1 == i0 + pow2(q)
                       IN IF Bit(i, q) = 0
                          THEN ZAdd(ZMul(m[1], st[i0]), ZMul(m[2], st[i1]))
                          ELSE ZAdd(ZMul(m[3], st[i0]), ZMul(m[4], st[i1]))
                  ELSE ZMulSqrt2Pow(st[i], me)]
        red == Reduce(new, sim.e + me)
    IN [sim EXCEPT !.state = red.state, !.e = red.e]

\* Both halves of a two-qubit unitary that only touches |01> and |10> of
\* (q1, q2): on that pair it is <<m00, m01, m10, m11>>/sqrt(2)^me, and the
\* amplitudes of |00> and |11> are multiplied by d00 and d11.
Apply2q(sim, q1, q2, m, me, d00, d11, cs) ==
    LET st == sim.state
        new == [i \in DOMAIN st |->
                  IF Controlled(i, cs)
                  THEN LET b1 == Bit(i, q1)
                           b2 == Bit(i, q2)
                           base == i - b1 * pow2(q1) - b2 * pow2(q2)
                           i01 == base + pow2(q1)
                           i10 == base + pow2(q2)
                       IN CASE b1 = 0 /\ b2 = 0 ->
                                 ZMulSqrt2Pow(ZMul(d00, st[i]), me)
                            [] b1 = 1 /\ b2 = 1 ->
                                 ZMulSqrt2Pow(ZMul(d11, st[i]), me)
                            [] b1 = 1 /\ b2 = 0 ->
                                 ZAdd(ZMul(m[1], st[i01]), ZMul(m[2], st[i10]))
                            [] OTHER ->
                                 ZAdd(ZMul(m[3], st[i01]), ZMul(m[4], st[i10]))
                  ELSE ZMulSqrt2Pow(st[i], me)]
        red == Reduce(new, sim.e + me)
    IN [sim EXCEPT !.state = red.state, !.e = red.e]

\* Argument check of every kernel call: indices below n, targets distinct,
\* targets and controllers disjoint.
ValidQubits(sim, qs, cs) ==
    /\ \A k \in 1..Len(qs) : qs[k] < sim.total_qubit
    /\ \A k \in 1..Len(cs) : cs[k] < sim.total_qubit
    /\ \A j, k \in 1..Len(qs) : j # k => qs[j] # qs[k]
    /\ Range(qs) \cap Range(cs) = {}

Kernel(sim, qs, cs, new) ==
    IF ValidQubits(sim, qs, cs)
    THEN [sim |-> new, err |-> "ok"]
    ELSE [sim |-> sim, err |-> "InvalidArgument"]

\* Gate catalogue: hadamard .. cswap of StatevectorSimulator (simulator.h).
simulator_hadamard(sim, qn, gc, dag) ==
    Kernel(sim, <<qn>>, gc,
           Apply1q(sim, qn, <<ONE, ONE, ONE, ZNeg(ONE)>>, 1, gc))

simulator_x(sim, qn, gc, dag) ==
    Kernel(sim, <<qn>>, gc, Apply1q(sim, qn, <<ZERO, ONE, ONE, ZERO>>, 0, gc))

simulator_y(sim, qn, gc, dag) ==
    Kernel(sim, <<qn>>, gc,
           Apply1q(sim, qn, <<ZERO, ZNeg(IM), IM, ZERO>>, 0, gc))

simulator_z(sim, qn, gc, dag) ==
    Kernel(sim, <<qn>>, gc,
           Apply1q(sim, qn, <<ONE, ZERO, ZERO, ZNeg(ONE)>>, 0, gc))

MaybeDagger(m, dag) == IF dag THEN Dagger2(m) ELSE m

simulator_sx(sim, qn, gc, dag) ==
    Kernel(sim, <<qn>>, gc,
           Apply1q(sim, qn,
                   MaybeDagger(<<ZAdd(ONE, IM), ZAdd(ONE, ZNeg(IM)),
                                 ZAdd(ONE, ZNeg(IM)), ZAdd(ONE, IM)>>, dag),
                   2, gc))

simulator_rx(sim, qn, angle, gc, dag) ==
    Kernel(sim, <<qn>>, gc,
           Apply1q(sim, qn,
                   MaybeDagger(<<Cos2(angle), ZNeg(ZMul(IM, Sin2(angle))),
                                 ZNeg(ZMul(IM, Sin2(angle))), Cos2(angle)>>,
                               dag),
                   2, gc))

simulator_ry(sim, qn, angle, gc, dag) ==
    Kernel(sim, <<qn>>, gc,
           Apply1q(sim, qn,
                   MaybeDagger(<<Cos2(angle), ZNeg(Sin2(angle)),
                                 Sin2(angle), Cos2(angle)>>, dag),
                   2, gc))

simulator_rz(sim, qn, angle, gc, dag) ==
    Kernel(sim, <<qn>>, gc,
           Apply1q(sim, qn,
                   MaybeDagger(<<WPow(-angle), ZERO, ZERO, WPow(angle)>>, dag),
                   0, gc))

\* rotation by theta about cos(phi) X + sin(phi) Y
simulator_rphi(sim, qn, theta, phi, gc, dag) ==
    Kernel(sim, <<qn>>, gc,
           Apply1q(sim, qn,
                   MaybeDagger(
                       <<Cos2(theta),
                         ZNeg(ZMul(IM, ZMul(Sin2(theta), WPow(-2 * phi)))),
                         ZNeg(ZMul(IM, ZMul(Sin2(theta), WPow(2 * phi)))),
                         Cos2(theta)>>, dag),
                   2, gc))

simulator_rphi90(sim, qn, phi, gc, dag) ==
    simulator_rphi(sim, qn, 1, phi, gc, dag)

simulator_rphi180(sim, qn, phi, gc, dag) ==
    simulator_rphi(sim, qn, 2, phi, gc, dag)

simulator_cz(sim, qn1, qn2, gc, dag) ==
    Kernel(sim, <<qn1, qn2>>, gc,
           Apply2q(sim, qn1, qn2, <<ONE, ZERO, ZERO, ONE>>, 0,
                   ONE, ZNeg(ONE), gc))

simulator_iswap(sim, qn1, qn2, gc, dag) ==
    Kernel(sim, <<qn1, qn2>>, gc,
           Apply2q(sim, qn1, qn2,
                   MaybeDagger(<<ZERO, IM, IM, ZERO>>, dag), 0, ONE, ONE, gc))

simulator_xy(sim, qn1, qn2, theta, gc, dag) ==
    Kernel(sim, <<qn1, qn2>>, gc,
           Apply2q(sim, qn1, qn2,
                   MaybeDagger(<<Cos2(2 * theta),
                                 ZNeg(ZMul(IM, Sin2(2 * theta))),
                                 ZNeg(ZMul(IM, Sin2(2 * theta))),
                                 Cos2(2 * theta)>>, dag),
                   2, ONE, ONE, gc))

simulator_cnot(sim, controller, target, gc, dag) ==
    Kernel(sim, <<controller, target>>, gc,
           Apply1q(sim, target, <<ZERO, ONE, ONE, ZERO>>, 0,
                   gc \o <<controller>>))

simulator_toffoli(sim, qn1, qn2, target, gc, dag) ==
    Kernel(sim, <<qn1, qn2, target>>, gc,
           Apply1q(sim, target, <<ZERO, ONE, ONE, ZERO>>, 0,
                   gc \o <<qn1, qn2>>))

simulator_cswap(sim, controller, target1, target2, gc, dag) ==
    Kernel(sim, <<controller, target1, target2>>, gc,
           Apply2q(sim, target1, target2, <<ZERO, ONE, ONE, ZERO>>, 0,
                   ONE, ONE, gc \o <<controller>>))

\* --------------------------------------------------- NoiseSimulatorImpl
\* A channel takes the draw r it makes; r and p are numerators over Den.
NoGc == <<>>

depolarizing(sim, qn, p, r) ==
    IF r > p THEN [sim |-> sim, err |-> "ok"]
    ELSE IF 3 * r < p THEN simulator_x(sim, qn, NoGc, FALSE)
    ELSE IF 3 * r < 2 * p THEN simulator_y(sim, qn, NoGc, FALSE)
    ELSE simulator_z(sim, qn, NoGc, FALSE)

bitflip(sim, qn, p, r) ==
    IF r > p THEN [sim |-> sim, err |-> "ok"]
    ELSE simulator_x(sim, qn, NoGc, FALSE)

phaseflip(sim, qn, p, r) ==
    IF r > p THEN [sim |-> sim, err |-> "ok"]
    ELSE simulator_z(sim, qn, NoGc, FALSE)

\* C++ integer division and remainder (truncating toward zero)
CDiv(a, b) == IF a >= 0 THEN a \div b ELSE -((-a) \div b)
CMod(a, b) == a - b * CDiv(a, b)

Pauli(sim, k, qn) ==
    CASE k = 0 -> [sim |-> sim, err |-> "ok"]
      [] k = 1 -> simulator_x(sim, qn, NoGc, FALSE)
      [] k = 2 -> simulator_y(sim, qn, NoGc, FALSE)
      [] k = 3 -> simulator_z(sim, qn, NoGc, FALSE)
      [] OTHER -> [sim |-> sim, err |-> "RuntimeError: ?????"]

\* int(15 * r / p) of a NaN (p = 0, r = 0) is undefined: nan_int is the
\* value the build produces there.
twoqubit_depolarizing(sim, qn1, qn2, p, r, nan_int) ==
    IF r > p THEN [sim |-> sim, err |-> "ok"]
    ELSE LET depol_case == (IF p = 0 THEN nan_int ELSE (15 * r) \div p) + 1
             first == Pauli(sim, CMod(depol_case, 4), qn1)
         IN IF first.err # "ok" THEN first
            ELSE Pauli(first.sim, CDiv(depol_case, 4), qn2)

\* Sum of |state[i]|^2 over the indices in S, as <<u, v>> = u + v*sqrt(2).
RECURSIVE NormOver(_, _)
NormOver(st, S) ==
    IF S = {} THEN <<0, 0>>
    ELSE LET i == CHOOSE j \in S : TRUE
             rest == NormOver(st, S \ {i})
         IN <<abs_sqr(st[i])[1] + rest[1], abs_sqr(st[i])[2] + rest[2]>>

IsPow2(k) == \E j \in 0..k : pow2(j) = k
Log2(k) == CHOOSE j \in 0..k : pow2(j) = k

\* Variant: the state is left as it is.
normalize_state_vector_skipped(sim) == [sim |-> sim, err |-> "ok"]

\* Divide by sqrt(sum |state[i]|^2).  The model holds the result when the
\* sum is 2^j / 2^e; any other sum is outside the number model.
normalize_state_vector(sim) ==
    LET nrm == NormOver(sim.state, DOMAIN sim.state)
    IN IF nrm[2] = 0 /\ nrm[1] > 0 /\ IsPow2(nrm[1])
       THEN LET red == Reduce(sim.state, Log2(nrm[1]))
            IN [sim |-> [sim EXCEPT !.state = red.state, !.e = red.e],
                err |-> "ok"]
       ELSE [sim |-> sim, err |-> "OutsideNumberModel"]

\* sqrt(1 - p) as an exponent j with sqrt(1 - p) = 1/sqrt(2)^j, or -1 for 0,
\* or -2 when it is not of that form.
SqrtOneMinus(p) ==
    IF p = Den THEN -1
    ELSE IF \E j \in 0..Den : pow2(j) * (Den - p) = Den
         THEN CHOOSE j \in 0..Den : pow2(j) * (Den - p) = Den
         ELSE -2

\* Variant: the decay copies the amplitudes and leaves the originals.
damping_copying(sim, qn, p, r) ==
    LET st == sim.state
        ones == {i \in DOMAIN st : Bit(i, qn) = 1}
        w1 == NormOver(st, ones)
        all == NormOver(st, {i \in DOMAIN st :
                                \E j \in ones : i = j \/ i = j - pow2(qn)})
        E0 == SqrtOneMinus(p)
    IN IF ~(all[2] = 0 /\ all[1] = pow2(sim.e))
       THEN [sim |-> sim,
             err |-> "RuntimeError: Probabilities do not sum up to 1"]
       ELSE IF Sqrt2Pos(p * w1[1] - r * pow2(sim.e), p * w1[2])
       THEN normalize_state_vector(
                [sim EXCEPT !.state =
                    [i \in DOMAIN st |->
                        IF Bit(i, qn) = 1 THEN st[i] ELSE st[i + pow2(qn)]]])
       ELSE IF E0 = -2 THEN [sim |-> sim, err |-> "OutsideNumberModel"]
       ELSE normalize_state_vector(
                [sim EXCEPT
                    !.state = [i \in DOMAIN st |->
                                 IF Bit(i, qn) = 1
                                 THEN (IF E0 = -1 THEN ZERO ELSE st[i])
                                 ELSE ZMulSqrt2Pow(st[i],
                                                   IF E0 = -1 THEN 0 ELSE E0)],
                    !.e = sim.e + (IF E0 = -1 THEN 0 ELSE E0)])

damping(sim, qn, p, r) ==
    LET st == sim.state
        ones == {i \in DOMAIN st : Bit(i, qn) = 1}
        w1 == NormOver(st, ones)
        all == NormOver(st, {i \in DOMAIN st :
                                \E j \in ones : i = j \/ i = j - pow2(qn)})
        E0 == SqrtOneMinus(p)
    IN IF ~(all[2] = 0 /\ all[1] = pow2(sim.e))
       THEN [sim |-> sim,
             err |-> "RuntimeError: Probabilities do not sum up to 1"]
       ELSE IF Sqrt2Pos(p * w1[1] - r * pow2(sim.e), p * w1[2])
       THEN normalize_state_vector(
                [sim EXCEPT !.state =
                    [i \in DOMAIN st |->
                        IF Bit(i, qn) = 1 THEN ZERO ELSE st[i + pow2(qn)]]])
       ELSE IF E0 = -2 THEN [sim |-> sim, err |-> "OutsideNumberModel"]
       ELSE normalize_state_vector(
                [sim EXCEPT
                    !.state = [i \in DOMAIN st |->
                                 IF Bit(i, qn) = 1
                                 THEN (IF E0 = -1 THEN ZERO ELSE st[i])
                                 ELSE ZMulSqrt2Pow(st[i],
                                                   IF E0 = -1 THEN 0 ELSE E0)],
                    !.e = sim.e + (IF E0 = -1 THEN 0 ELSE E0)])

\* ------------------------------------------------------------ execute_once
\* A replay consumes the draws tape[pos], tape[pos+1], ... of the uniform
\* source.  Every step returns the simulator, the next tape position and
\* the error that ended it.
RECURSIVE ChannelLoop(_, _, _, _, _, _)
ChannelLoop(op, sim, qs, p, tape, pos) ==
    IF qs = <<>> THEN [sim |-> sim, pos |-> pos, err |-> "ok"]
    ELSE LET one == CASE op = "Depolarizing" ->
                            depolarizing(sim, Head(qs), p, tape[pos])
                      [] op = "Damping" -> damping(sim, Head(qs), p, tape[pos])
                      [] op = "BitFlip" -> bitflip(sim, Head(qs), p, tape[pos])
                      [] op = "PhaseFlip" ->
                            phaseflip(sim, Head(qs), p, tape[pos])
         IN IF one.err # "ok"
            THEN [sim |-> one.sim, pos |-> pos + 1, err |-> one.err]
            ELSE ChannelLoop(op, one.sim, Tail(qs), p, tape, pos + 1)

NoDraw(r, pos) == [sim |-> r.sim, pos |-> pos, err |-> r.err]

\* The switch of execute_once on one opcode.
Dispatch(sim, opcode, tape, pos, nan_int) ==
    LET q == opcode.qubits
        a == opcode.parameters
        gc == opcode.global_controller
        dg == opcode.dagger
    IN CASE opcode.op \in {"Depolarizing", "Damping", "BitFlip", "PhaseFlip"} ->
              ChannelLoop(opcode.op, sim, q, a[1], tape, pos)
         [] opcode.op = "TwoQubitDepolarizing" ->
              IF Len(q) # 2
              THEN [sim |-> sim, pos |-> pos, err |-> "InvalidArgument"]
              ELSE NoDraw(twoqubit_depolarizing(sim, q[1], q[2], a[1],
                                                tape[pos], nan_int), pos + 1)
         [] opcode.op = "HADAMARD" ->
              NoDraw(simulator_hadamard(sim, q[1], gc, dg), pos)
         [] opcode.op = "X" -> NoDraw(simulator_x(sim, q[1], gc, dg), pos)
         [] opcode.op = "SX" -> NoDraw(simulator_sx(sim, q[1], gc, dg), pos)
         [] opcode.op = "Y" -> NoDraw(simulator_y(sim, q[1], gc, dg), pos)
         [] opcode.op = "Z" -> NoDraw(simulator_z(sim, q[1], gc, dg), pos)
         [] opcode.op = "RX" ->
              NoDraw(simulator_rx(sim, q[1], a[1], gc, dg), pos)
         [] opcode.op = "RY" ->
              NoDraw(simulator_ry(sim, q[1], a[1], gc, dg), pos)
         [] opcode.op = "RZ" ->
              NoDraw(simulator_rz(sim, q[1], a[1], gc, dg), pos)
         [] opcode.op = "CZ" ->
              NoDraw(simulator_cz(sim, q[1], q[2], gc, dg), pos)
         [] opcode.op = "CNOT" ->
              NoDraw(simulator_cnot(sim, q[1], q[2], NoGc, FALSE), pos)
         [] opcode.op = "ISWAP" ->
              NoDraw(simulator_iswap(sim, q[1], q[2], gc, dg), pos)
         [] opcode.op = "XY" ->
              NoDraw(simulator_xy(sim, q[1], q[2], a[1], gc, dg), pos)
         [] opcode.op = "RPHI90" ->
              NoDraw(simulator_rphi90(sim, q[1], a[1], gc, dg), pos)
         [] opcode.op = "RPHI180" ->
              NoDraw(simulator_rphi180(sim, q[1], a[1], gc, dg), pos)
         [] opcode.op = "RPHI" ->
              NoDraw(simulator_rphi(sim, q[1], a[1], a[2], gc, dg), pos)
         [] opcode.op = "TOFFOLI" ->
              NoDraw(simulator_toffoli(sim, q[1], q[2], q[3], gc, dg), pos)
         [] opcode.op = "CSWAP" ->
              NoDraw(simulator_cswap(sim, q[1], q[2], q[3], gc, dg), pos)
         [] OTHER ->
              [sim |-> sim, pos |-> pos,
               err |-> "RuntimeError: Failed to handle opcode"]

\* The for loop over the stream from opcode k on.  applied lists the
\* opcodes whose case ran to its break; states[j] is the simulator before
\* the j-th of them and states[j+1] after it.
RECURSIVE ReplayFrom(_, _, _, _, _, _, _, _)

\* The loop after the switch on opcode k returned d.
ReplayStep(ops, k, d, tape, nan_int, applied, states) ==
    IF d.err # "ok"
    THEN [sim |-> d.sim, pos |-> d.pos, err |-> d.err,
          applied |-> applied, states |-> states]
    ELSE ReplayFrom(ops, k + 1, d.sim, tape, d.pos, nan_int,
                    Append(applied, k), Append(states, d.sim))

ReplayFrom(ops, k, sim, tape, pos, nan_int, applied, states) ==
    IF k > Len(ops)
    THEN [sim |-> sim, pos |-> pos, err |-> "ok",
          applied |-> applied, states |-> states]
    ELSE ReplayStep(ops, k, Dispatch(sim, ops[k], tape, pos, nan_int),
                    tape, nan_int, applied, states)

\* Variant: a noise opcode on several qubits is applied to the first one.
FirstQubitOnly(ops) ==
    [k \in 1..Len(ops) |->
        IF ops[k].op \in {"Depolarizing", "Damping", "BitFlip", "PhaseFlip"}
           /\ ops[k].qubits # <<>>
        THEN [ops[k] EXCEPT !.qubits = <<Head(ops[k].qubits)>>]
        ELSE ops[k]]

ExecuteOnce_first_qubit(sim, ops, tape, pos, nan_int) ==
    ReplayFrom(FirstQubitOnly(ops), 1, init_n_qubit(nqubit), tape, pos,
               nan_int, <<>>, <<init_n_qubit(nqubit)>>)

\* Variant: a kernel that already has nqubit qubits is not initialised
\* again.
StartOf(sim) ==
    IF sim.total_qubit = nqubit THEN sim ELSE init_n_qubit(nqubit)

ExecuteOnce_continuing(sim, ops, tape, pos, nan_int) ==
    ReplayFrom(ops, 1, StartOf(sim), tape, pos, nan_int, <<>>,
               <<StartOf(sim)>>)

\* NoisySimulator::execute_once, started on simulator sim.
ExecuteOnce(sim, ops, tape, pos, nan_int) ==
    ReplayFrom(ops, 1, init_n_qubit(nqubit), tape, pos, nan_int,
               <<>>, <<init_n_qubit(nqubit)>>)

\* Number of draws a replay of ops makes when no opcode fails.
RECURSIVE DrawsNeeded(_)
DrawsNeeded(ops) ==
    IF ops = <<>> THEN 0
    ELSE (CASE Head(ops).op \in {"Depolarizing", "Damping", "BitFlip",
                                 "PhaseFlip"} -> Len(Head(ops).qubits)
            [] Head(ops).op = "TwoQubitDepolarizing" -> 1
            [] OTHER -> 0)
         + DrawsNeeded(Tail(ops))

\* ------------------------------------------------------------ measurement
\* preprocess_measure_list: qubit -> position in the list, or the error.
preprocess_measure_list(measure_list, total_qubit) ==
    IF \/ Len(measure_list) > total_qubit
       \/ \E k \in 1..Len(measure_list) : measure_list[k] >= total_qubit
       \/ \E j, k \in 1..Len(measure_list) :
              j # k /\ measure_list[j] = measure_list[k]
    THEN [err |-> "InvalidArgument", map |-> <<>>]
    ELSE [err |-> "ok",
          map |-> [qn \in Range(measure_list) |->
                      (CHOOSE k \in 1..Len(measure_list) :
                           measure_list[k] = qn) - 1]]

RECURSIVE PackBits(_, _, _)
PackBits(i, map, S) ==
    IF S = {} THEN 0
    ELSE LET qn == CHOOSE k \in S : TRUE
         IN Bit(i, qn) * pow2(map[qn]) + PackBits(i, map, S \ {qn})

get_state_with_qubit(i, map) == PackBits(i, map, DOMAIN map)

\* The walk of the sampler from index i on; the running value of r is
\* (a + b*sqrt(2)) / (Den * 2^e).
RECURSIVE SampleFrom(_, _, _, _)
SampleFrom(sim, i, a, b) ==
    IF i >= pow2(sim.total_qubit)
    THEN [err |-> "RuntimeError: get_measure internal fatal error", val |-> 0]
    ELSE LET pr == abs_sqr(sim.state[i])
         IN IF Sqrt2Pos(Den * pr[1] - a, Den * pr[2] - b)
            THEN [err |-> "ok", val |-> i]
            ELSE SampleFrom(sim, i + 1, a - Den * pr[1], b - Den * pr[2])

\* Variant: the walk stops as soon as nothing is left of r.
RECURSIVE SampleFrom_nonpositive(_, _, _, _)
SampleFrom_nonpositive(sim, i, a, b) ==
    IF i >= pow2(sim.total_qubit)
    THEN [err |-> "RuntimeError: get_measure internal fatal error", val |-> 0]
    ELSE LET pr == abs_sqr(sim.state[i])
         IN IF ~Sqrt2Pos(a - Den * pr[1], b - Den * pr[2])
            THEN [err |-> "ok", val |-> i]
            ELSE SampleFrom_nonpositive(sim, i + 1, a - Den * pr[1],
                                        b - Den * pr[2])

get_measure_no_readout_error_nonpositive(sim, r) ==
    SampleFrom_nonpositive(sim, 0, r * pow2(sim.e), 0)

get_measure_no_readout_error(sim, r) == SampleFrom(sim, 0, r * pow2(sim.e), 0)

\* The readout loop of get_measure from qubit i on.
RECURSIVE ReadoutFrom(_, _, _, _)
ReadoutFrom(meas_result, i, tape, pos) ==
    IF i >= nqubit THEN meas_result
    ELSE LET r == tape[pos]
             me == measurement_error_matrices[i + 1]
             next == IF Bit(meas_result, i) = 1
                     THEN (IF r < me[2] THEN meas_result - pow2(i)
                           ELSE meas_result)
                     ELSE (IF r < me[1] THEN meas_result + pow2(i)
                           ELSE meas_result)
         IN ReadoutFrom(next, i + 1, tape, pos + 1)

\* Variant: the two flip probabilities of a qubit change places.
RECURSIVE ReadoutFrom_swapped(_, _, _, _)
ReadoutFrom_swapped(meas_result, i, tape, pos) ==
    IF i >= nqubit THEN meas_result
    ELSE LET r == tape[pos]
             me == measurement_error_matrices[i + 1]
             next == IF Bit(meas_result, i) = 1
                     THEN (IF r < me[1] THEN meas_result - pow2(i)
                           ELSE meas_result)
                     ELSE (IF r < me[2] THEN meas_result + pow2(i)
                           ELSE meas_result)
         IN ReadoutFrom_swapped(next, i + 1, tape, pos + 1)

get_measure_swapped(sim, tape, pos) ==
    LET m == get_measure_no_readout_error(sim, tape[pos])
    IN IF m.err # "ok" THEN [err |-> m.err, val |-> 0, pos |-> pos + 1]
       ELSE IF Len(measurement_error_matrices) = 0
       THEN [err |-> "ok", val |-> m.val, pos |-> pos + 1]
       ELSE IF Len(measurement_error_matrices) # nqubit
       THEN [err |-> "RuntimeError: measurement_error_matrices size",
             val |-> 0, pos |-> pos + 1]
       ELSE [err |-> "ok",
             val |-> ReadoutFrom_swapped(m.val, 0, tape, pos + 1),
             pos |-> pos + 1 + nqubit]

\* Variant: a bit flips when the draw is at most the flip probability.
RECURSIVE ReadoutFrom_inclusive(_, _, _, _)
ReadoutFrom_inclusive(meas_result, i, tape, pos) ==
    IF i >= nqubit THEN meas_result
    ELSE LET r == tape[pos]
             me == measurement_error_matrices[i + 1]
             next == IF Bit(meas_result, i) = 1
                     THEN (IF r <= me[2] THEN meas_result - pow2(i)
                           ELSE meas_result)
                     ELSE (IF r <= me[1] THEN meas_result + pow2(i)
                           ELSE meas_result)
         IN ReadoutFrom_inclusive(next, i + 1, tape, pos + 1)

get_measure_inclusive(sim, tape, pos) ==
    LET m == get_measure_no_readout_error(sim, tape[pos])
    IN IF m.err # "ok" THEN [err |-> m.err, val |-> 0, pos |-> pos + 1]
       ELSE IF Len(measurement_error_matrices) = 0
       THEN [err |-> "ok", val |-> m.val, pos |-> pos + 1]
       ELSE IF Len(measurement_error_matrices) # nqubit
       THEN [err |-> "RuntimeError: measurement_error_matrices size",
             val |-> 0, pos |-> pos + 1]
       ELSE [err |-> "ok",
             val |-> ReadoutFrom_inclusive(m.val, 0, tape, pos + 1),
             pos |-> pos + 1 + nqubit]

\* Variant: a readout error of the wrong length is ignored.
get_measure_unchecked(sim, tape, pos) ==
    LET m == get_measure_no_readout_error(sim, tape[pos])
    IN IF m.err # "ok" THEN [err |-> m.err, val |-> 0, pos |-> pos + 1]
       ELSE IF Len(measurement_error_matrices) # nqubit
       THEN [err |-> "ok", val |-> m.val, pos |-> pos + 1]
       ELSE [err |-> "ok", val |-> ReadoutFrom(m.val, 0, tape, pos + 1),
             pos |-> pos + 1 + nqubit]

get_measure(sim, tape, pos) ==
    LET m == get_measure_no_readout_error(sim, tape[pos])
    IN IF m.err # "ok" THEN [err |-> m.err, val |-> 0, pos |-> pos + 1]
       ELSE IF Len(measurement_error_matrices) = 0
       THEN [err |-> "ok", val |-> m.val, pos |-> pos + 1]
       ELSE IF Len(measurement_error_matrices) # nqubit
       THEN [err |-> "RuntimeError: measurement_error_matrices size",
             val |-> 0, pos |-> pos + 1]
       ELSE [err |-> "ok", val |-> ReadoutFrom(m.val, 0, tape, pos + 1),
             pos |-> pos + 1 + nqubit]

\* Variant: a bucket that exists is set to one.
Bump_reset(h, k) == IF k \in DOMAIN h THEN [h EXCEPT ![k] = 1]
                    ELSE [j \in DOMAIN h \cup {k} |-> IF j = k THEN 1 ELSE h[j]]

Bump(h, k) == IF k \in DOMAIN h THEN [h EXCEPT ![k] = @ + 1]
              ELSE [j \in DOMAIN h \cup {k} |-> IF j = k THEN 1 ELSE h[j]]

ShotRecord(run, g, from, tape) ==
    [applied |-> run.applied, states |-> run.states, err |-> run.err,
     draws |-> SubSeq(tape, from, run.pos - 1),
     mdraws |-> SubSeq(tape, run.pos, g.pos - 1),
     meas |-> IF run.err = "ok" /\ g.err = "ok" THEN <<g.val>> ELSE <<>>]

\* The shot loop shared by both measure_shots: shot i of shots.  packed
\* tells whether the outcome goes through get_state_with_qubit.
RECURSIVE ShotLoop(_, _, _, _, _, _, _, _, _, _)

\* Shot i after its replay run, its measurement g and its record rec.
ShotTail(i, shots, run, g, rec, tape, nan_int, hist, log, packed, map) ==
    IF g.err # "ok"
    THEN [sim |-> run.sim, err |-> g.err, hist |-> <<>>,
          log |-> Append(log, rec)]
    ELSE ShotLoop(i + 1, shots, run.sim, tape, g.pos, nan_int,
                  Bump(hist, IF packed THEN get_state_with_qubit(g.val, map)
                             ELSE g.val),
                  Append(log, rec), packed, map)

\* Shot i after its replay run and its measurement g.
ShotMeasured(i, shots, run, g, tape, pos, nan_int, hist, log, packed, map) ==
    ShotTail(i, shots, run, g, ShotRecord(run, g, pos, tape), tape, nan_int,
             hist, log, packed, map)

\* The measurement of a shot: get_measure unless the replay threw.
ShotMeasure(run, tape) ==
    IF run.err = "ok" THEN get_measure(run.sim, tape, run.pos)
    ELSE [err |-> run.err, val |-> 0, pos |-> run.pos]

\* Shot i after its replay run.
ShotReplayed(i, shots, run, tape, pos, nan_int, hist, log, packed, map) ==
    ShotMeasured(i, shots, run, ShotMeasure(run, tape), tape, pos, nan_int,
                 hist, log, packed, map)

ShotLoop(i, shots, sim, tape, pos, nan_int, hist, log, packed, map) ==
    IF i >= shots
    THEN [sim |-> sim, err |-> "ok", hist |-> hist, log |-> log]
    ELSE ShotReplayed(i, shots,
                      ExecuteOnce(sim, opcodes, tape, pos, nan_int),
                      tape, pos, nan_int, hist, log, packed, map)

\* Draws the replay and the sampler of one shot make when nothing fails.
DrawsPerShot == DrawsNeeded(opcodes) + 1

\* Draws the readout loop of one shot makes.
ReadoutDraws ==
    IF Len(measurement_error_matrices) = nqubit THEN nqubit ELSE 0

\* ------------------------------------------------------- argument menus
\* The qubits the menus name; the simulators are built with that many.
QubitIds == {0, 1, 2}
\* (qn, global_controller, is_dagger) of the 1-qubit mutators
Args1q == {<<0, <<>>, FALSE>>, <<1, <<2>>, TRUE>>}
\* (qn1, qn2, global_controller, is_dagger) of the 2-qubit mutators
Args2q == {<<0, 1, <<2>>, FALSE>>, <<1, 0, <<>>, TRUE>>,
           <<0, 1, <<>>, FALSE>>}
\* (qn1, qn2, qn3, global_controller, is_dagger) of toffoli and cswap
Args3q == {<<0, 1, 2, <<>>, FALSE>>, <<2, 0, 1, <<>>, TRUE>>}
\* angles in quarter turns; the u22 matrix as (re, im) pairs
Rot == [angle |-> 1, phi |-> 1, theta |-> 2]
Unitary == <<<<0, 0>>, <<1, 0>>, <<1, 0>>, <<0, 0>>>>
\* (opstr, qubits, parameters, dagger, global_controller) of load_opcode
LoadArgs == {<<"X", <<0>>, <<>>, FALSE, <<>>>>,
             <<"CNOT", <<0, 1>>, <<>>, TRUE, <<2>>>>,
             <<"RPHI", <<1>>, <<Rot.phi, Rot.theta>>, FALSE, <<>>>>,
             <<"TOFFOLI", <<0, 1, 2>>, <<>>, FALSE, <<>>>>,
             <<"FOO", <<0>>, <<>>, FALSE, <<>>>>,
             <<"CZ", <<0, 3>>, <<>>, FALSE, <<0>>>>}
MeasureLists == {<<1, 0>>, <<0, 0>>}
DrawVals == {0, Den - 1}
\* what int() of a NaN may yield: INT_MIN on x86, 0 elsewhere
NanInts == {-2147483647 - 1, 0}

\* ------------------------------------------------------------ constructors
Half == Den \div 2

\* The qubits of the simulators built with a readout error, and the
\* measurement_error arguments: per qubit (p of 0 read as 1, p of 1 read
\* as 0).  The last one is a pair short.
ReadoutQubitIds == {0, 1}
ReadoutConfigs ==
    {<<>>,
     <<<<0, 0>>, <<0, 0>>>>,
     <<<<Half, Den>>, <<Half, 0>>>>,
     <<<<0, 0>>>>}

EmptyMap == [k \in {} |-> 0]

\* Arguments of the constructors: policy, noise_description, the
\* gate-dependent description, the 1q and 2q gate-specific descriptions.
Cfg(pol, nd, gd, e1, e2) ==
    [policy |-> pol, noise_description |-> nd, gate_noise_description |-> gd,
     gate_error1q_description |-> e1, gate_error2q_description |-> e2]

\* One channel per configuration, with the probabilities 0, 1/2, 11/12, 1
\* and 3/2.
\* twoqubit_depolarizing is given for CNOT under the gate-dependent policy.
OneNoise(t, p) ==
    Cfg("Global", [k \in {t} |-> p], EmptyMap, EmptyMap, EmptyMap)

CnotNoise(p) ==
    Cfg("GateDependent", EmptyMap,
        [g \in {"CNOT"} |-> [k \in {"twoqubit_depolarizing"} |-> p]],
        EmptyMap, EmptyMap)

\* bitflip on the pair (0, 2) after every X on qubit 0.
CrosstalkNoise(p) ==
    Cfg("GateSpecific", EmptyMap, EmptyMap, EmptyMap,
        [k \in {<<"X", <<0, 2>>>>} |-> [t \in {"bitflip"} |-> p]])

\* twoqubit_depolarizing named for the 1-qubit gate X: in a gate-dependent
\* entry, and in a gate_error_1q entry for qubit 0.
TwoQubitOnX ==
    Cfg("GateDependent", EmptyMap,
        [g \in {"X"} |-> [k \in {"twoqubit_depolarizing"} |-> Half]],
        EmptyMap, EmptyMap)

TwoQubitOnX0 ==
    Cfg("GateSpecific", EmptyMap, EmptyMap,
        [k \in {<<"X", 0>>} |-> [t \in {"twoqubit_depolarizing"} |-> Half]],
        EmptyMap)

NoiseConfigs ==
    {TwoQubitOnX, TwoQubitOnX0,
     OneNoise("depolarizing", 0), OneNoise("depolarizing", Den - 1),
     OneNoise("bitflip", 0), OneNoise("phaseflip", 0),
     OneNoise("damping", 0), OneNoise("damping", Half),
     OneNoise("damping", Den),
     CnotNoise(0), CnotNoise(Den - 1), CnotNoise(Den),
     OneNoise("bitflip", Den + Half), CrosstalkNoise(Half)}

\* Descriptions with the tokens foo and twoqubit_depolarizing, in the
\* global map and in a gate-dependent map.
TokenConfigs ==
    {OneNoise("bitflip", Half), OneNoise("foo", Half),
     OneNoise("twoqubit_depolarizing", Half),
     Cfg("Global",
         [k \in {"foo", "phaseflip"} |-> IF k = "foo" THEN Den ELSE Half],
         EmptyMap, EmptyMap, EmptyMap),
     CnotNoise(Half),
     Cfg("GateDependent", EmptyMap,
         [g \in {"CNOT"} |-> [k \in {"foo"} |-> Half]],
         EmptyMap, EmptyMap)}

\* The qubit sets of the simulators built to run them.
NoiseQubitIds == {{0}, {0, 1}}

GlobalConfigs ==
    {Cfg("Global", EmptyMap, EmptyMap, EmptyMap, EmptyMap),
     Cfg("Global", [t \in {"depolarizing"} |-> Half],
         EmptyMap, EmptyMap, EmptyMap),
     Cfg("Global",
         [t \in {"bitflip", "depolarizing"} |->
             IF t = "bitflip" THEN Den ELSE Half],
         EmptyMap, EmptyMap, EmptyMap)}

GateDependentConfigs ==
    {Cfg("GateDependent", [t \in {"depolarizing"} |-> Half],
         EmptyMap, EmptyMap, EmptyMap),
     Cfg("GateDependent", [t \in {"phaseflip"} |-> Half],
         [g \in {"X", "CNOT"} |->
             IF g = "X" THEN [t \in {"bitflip"} |-> Den]
             ELSE [t \in {"twoqubit_depolarizing", "phaseflip"} |->
                      IF t = "phaseflip" THEN 0 ELSE Half]],
         EmptyMap, EmptyMap)}

GateSpecificConfigs ==
    {Cfg("GateSpecific", [t \in {"damping"} |-> 0],
         EmptyMap, EmptyMap, EmptyMap),
     Cfg("GateSpecific", [t \in {"phaseflip"} |-> Half], EmptyMap,
         [k \in {<<"X", 0>>, <<"CNOT", 0>>, <<"CNOT", 1>>, <<"Y", 1>>,
                 <<"CZ", 1>>} |->
             IF k = <<"X", 0>> THEN [t \in {"bitflip"} |-> Den]
             ELSE IF k = <<"CNOT", 0>> THEN [t \in {"depolarizing"} |-> Half]
             ELSE IF k = <<"CNOT", 1>>
             THEN [t \in {"damping", "bitflip"} |->
                      IF t = "damping" THEN Den ELSE 0]
             ELSE [t \in {"phaseflip"} |-> Den]],
         [k \in {<<"X", <<0, 2>>>>, <<"X", <<0, 1>>>>, <<"X", <<1, 0>>>>,
                 <<"Y", <<0, 1>>>>, <<"CNOT", <<0, 1>>>>,
                 <<"CNOT", <<1, 0>>>>, <<"CZ", <<1, 0>>>>} |->
             IF k[1] = "X" /\ k[2][1] = 0
             THEN [t \in {"twoqubit_depolarizing"} |-> k[2][2]]
             ELSE IF k[1] = "CNOT"
             THEN [t \in {"twoqubit_depolarizing", "depolarizing"} |->
                      IF t = "depolarizing" THEN k[2][1] ELSE Half]
             ELSE [t \in {"bitflip"} |-> Half]])}

CtorError(c) ==
    CASE c.policy = "Global" -> "ok"
      [] c.policy = "GateDependent" ->
             _load_gate_dependent_noise_err(c.gate_noise_description)
      [] c.policy = "GateSpecific" ->
             IF _load_gate_error1q_err(c.gate_error1q_description) # "ok"
             THEN _load_gate_error1q_err(c.gate_error1q_description)
             ELSE _load_gate_error2q_err(c.gate_error2q_description)

NoCall == [name |-> "constructor", op |-> "none", qubits |-> <<>>,
           parameters |-> <<>>, dagger |-> FALSE, global_controller |-> <<>>]

\* The constructor call with the descriptions it was given.
CtorCall(c) ==
    [name |-> NoCall.name, op |-> NoCall.op, qubits |-> NoCall.qubits,
     parameters |-> NoCall.parameters, dagger |-> NoCall.dagger,
     global_controller |-> NoCall.global_controller, description |-> c]

\* The state a constructor leaves: maps loaded, nothing recorded, the
\* kernel not yet initialised (total_qubit = 0, empty state vector).
Constructed(c, n, measurement_error) ==
    /\ CtorError(c) = "ok"
    /\ policy = c.policy
    /\ nqubit = n
    /\ noise = _load_noise(c.noise_description)
    /\ gate_dependent_noise =
           (IF c.policy = "GateDependent"
            THEN _load_gate_dependent_noise(c.gate_noise_description)
            ELSE EmptyMap)
    /\ gate_error1q =
           (IF c.policy = "GateSpecific"
            THEN _load_gate_error1q(c.gate_error1q_description)
            ELSE EmptyMap)
    /\ gate_error2q =
           (IF c.policy = "GateSpecific"
            THEN _load_gate_error2q(c.gate_error2q_description)
            ELSE EmptyMap)
    /\ measurement_error_matrices = measurement_error
    /\ opcodes = <<>>
    /\ simulator = [total_qubit |-> 0, state |-> <<>>, e |-> 0]
    /\ measure_qubits = <<>>
    /\ measure_map = <<>>
    /\ lastCall = CtorCall(c)
    /\ result = "ok"
    /\ ret = <<>>
    /\ shotlog = <<>>

Init ==
    \E c \in GlobalConfigs \cup GateDependentConfigs \cup GateSpecificConfigs :
        Constructed(c, Cardinality(QubitIds), <<>>)

\* The values of nan_int a replay of ops can meet.
NanChoices(ops) ==
    IF \E k \in 1..Len(ops) : /\ ops[k].op = "TwoQubitDepolarizing"
                              /\ ops[k].parameters[1] = 0
    THEN NanInts ELSE {0}

\* ------------------------------------------------------------- recording
IsGate(oc) == oc.op \in SupportOperationType

RECURSIVE CountGates(_)
CountGates(ops) ==
    IF ops = <<>> THEN 0
    ELSE (IF IsGate(Head(ops)) THEN 1 ELSE 0) + CountGates(Tail(ops))

Call(name, op, qubits, parameters, dagger, gc) ==
    [name |-> name, op |-> op, qubits |-> qubits, parameters |-> parameters,
     dagger |-> dagger, global_controller |-> gc]

\* The common body of every record mutator: emplace_back of the gate
\* opcode, then insert_error.
Emplace(tag, qubits, parameters, dagger, gc) ==
    insert_error(Append(opcodes,
                        OpcodeType(tag, qubits, parameters, dagger, gc)),
                 qubits, tag)

\* Variant: recording also re-initialises the kernel.
Record_reinit(name, tag, qubits, parameters, dagger, gc) ==
    /\ CountGates(opcodes) < MaxOps
    /\ \E r \in {Emplace(tag, qubits, parameters, dagger, gc)} :
          opcodes' = r.ops /\ result' = r.err
    /\ lastCall' = Call(name, tag, qubits, parameters, dagger, gc)
    /\ ret' = <<>>
    /\ shotlog' = <<>>
    /\ simulator' = init_n_qubit(nqubit)
    /\ UNCHANGED <<config, measure_qubits, measure_map>>

Record(name, tag, qubits, parameters, dagger, gc) ==
    /\ CountGates(opcodes) < MaxOps
    /\ \E r \in {Emplace(tag, qubits, parameters, dagger, gc)} :
          opcodes' = r.ops /\ result' = r.err
    /\ lastCall' = Call(name, tag, qubits, parameters, dagger, gc)
    /\ ret' = <<>>
    /\ shotlog' = <<>>
    /\ UNCHANGED <<config, simulator, measure_qubits, measure_map>>

id ==
    \E a \in Args1q :
        Record("id", "IDENTITY", <<a[1]>>, <<>>, a[3], a[2])

hadamard ==
    \E a \in Args1q :
        Record("hadamard", "HADAMARD", <<a[1]>>, <<>>, a[3], a[2])

u22 ==
    \E a \in Args1q :
        Record("u22", "U22", <<a[1]>>,
               <<Unitary[1][1], Unitary[1][2], Unitary[2][1], Unitary[2][2],
                 Unitary[3][1], Unitary[3][2], Unitary[4][1], Unitary[4][2]>>,
               a[3], a[2])

x ==
    \E a \in Args1q :
        Record("x", "X", <<a[1]>>, <<>>, a[3], a[2])

y ==
    \E a \in Args1q :
        Record("y", "Y", <<a[1]>>, <<>>, a[3], a[2])

z ==
    \E a \in Args1q :
        Record("z", "Z", <<a[1]>>, <<>>, a[3], a[2])

sx ==
    \E a \in Args1q :
        Record("sx", "SX", <<a[1]>>, <<>>, a[3], a[2])

rx ==
    \E a \in Args1q :
        Record("rx", "RX", <<a[1]>>, <<Rot.angle>>, a[3], a[2])

ry ==
    \E a \in Args1q :
        Record("ry", "RY", <<a[1]>>, <<Rot.angle>>, a[3], a[2])

rz ==
    \E a \in Args1q :
        Record("rz", "RZ", <<a[1]>>, <<Rot.angle>>, a[3], a[2])

rphi90 ==
    \E a \in Args1q :
        Record("rphi90", "RPHI90", <<a[1]>>, <<Rot.phi>>, a[3], a[2])

rphi180 ==
    \E a \in Args1q :
        Record("rphi180", "RPHI180", <<a[1]>>, <<Rot.phi>>, a[3], a[2])

rphi ==
    \E a \in Args1q :
        Record("rphi", "RPHI", <<a[1]>>, <<Rot.phi, Rot.theta>>, a[3], a[2])

cz ==
    \E a \in Args2q :
        Record("cz", "CZ", <<a[1], a[2]>>, <<>>, a[4], a[3])

swap ==
    \E a \in Args2q :
        Record("swap", "SWAP", <<a[1], a[2]>>, <<>>, a[4], a[3])

xy ==
    \E a \in Args2q :
        Record("xy", "XY", <<a[1], a[2]>>, <<Rot.theta>>, a[4], a[3])

iswap ==
    \E a \in Args2q :
        Record("iswap", "ISWAP", <<a[1], a[2]>>, <<>>, a[4], a[3])

cnot ==
    \E a \in Args2q :
        Record("cnot", "CNOT", <<a[1], a[2]>>, <<>>, a[4], a[3])

toffoli ==
    \E a \in Args3q :
        Record("toffoli", "TOFFOLI", <<a[1], a[2], a[3]>>, <<>>, a[5], a[4])

cswap ==
    \E a \in Args3q :
        Record("cswap", "CSWAP", <<a[1], a[2], a[3]>>, <<>>, a[5], a[4])

load_opcode ==
    \E a \in LoadArgs :
        \E op \in {string_to_SupportOperationType(a[1])} :
           /\ CountGates(opcodes) < MaxOps
           /\ IF op.err # "ok"
              THEN /\ opcodes' = opcodes
                   /\ result' = op.err
              ELSE \E r \in {Emplace(op.val, a[2], a[3], a[4], a[5])} :
                      opcodes' = r.ops /\ result' = r.err
           /\ lastCall' = Call("load_opcode", a[1], a[2], a[3], a[4], a[5])
           /\ ret' = <<>>
           /\ shotlog' = <<>>
           /\ UNCHANGED <<config, simulator, measure_qubits, measure_map>>

\* ----------------------------------------------------- measuring, running
Plain(name) == Call(name, "none", <<>>, <<>>, FALSE, <<>>)

measure ==
    \E M \in MeasureLists :
        \E pm \in {preprocess_measure_list(M, simulator.total_qubit)} :
           /\ measure_qubits' = M
           /\ measure_map' = IF pm.err = "ok" THEN pm.map ELSE measure_map
           /\ result' = pm.err
           /\ lastCall' = Call("measure", "none", M, <<>>, FALSE, <<>>)
           /\ ret' = <<>>
           /\ shotlog' = <<>>
           /\ UNCHANGED <<config, opcodes, simulator>>

\* Variant: the replay consumes the stream it walks.
execute_once_consuming ==
    /\ DrawsNeeded(opcodes) <= MaxDraws
    /\ \E tape \in [1..DrawsNeeded(opcodes) -> DrawVals],
          nan_int \in NanChoices(opcodes) :
          \E run \in {ExecuteOnce(simulator, opcodes, tape, 1, nan_int)} :
             /\ simulator' = run.sim
             /\ result' = run.err
             /\ shotlog' = <<[applied |-> run.applied, states |-> run.states,
                              err |-> run.err,
                              draws |-> SubSeq(tape, 1, run.pos - 1),
                              mdraws |-> <<>>, meas |-> <<>>]>>
    /\ lastCall' = Plain("execute_once")
    /\ ret' = <<>>
    /\ opcodes' = <<>>
    /\ UNCHANGED <<config, measure_qubits, measure_map>>

execute_once ==
    /\ DrawsNeeded(opcodes) <= MaxDraws
    /\ \E tape \in [1..DrawsNeeded(opcodes) -> DrawVals],
          nan_int \in NanChoices(opcodes) :
          \E run \in {ExecuteOnce(simulator, opcodes, tape, 1, nan_int)} :
             /\ simulator' = run.sim
             /\ result' = run.err
             /\ shotlog' = <<[applied |-> run.applied, states |-> run.states,
                              err |-> run.err,
                              draws |-> SubSeq(tape, 1, run.pos - 1),
                              mdraws |-> <<>>, meas |-> <<>>]>>
    /\ lastCall' = Plain("execute_once")
    /\ ret' = <<>>
    /\ UNCHANGED <<config, opcodes, measure_qubits, measure_map>>

\* Variant: measure_shots(shots) packs the outcome under the plan of measure.
measure_shots_planned ==
    \E shots \in 1..MaxShots :
        /\ shots * DrawsPerShot <= MaxDraws
        /\ shots * ReadoutDraws <= MaxReadout
        /\ \E tape \in [1..(shots * (DrawsPerShot + ReadoutDraws))
                          -> DrawVals],
              nan_int \in NanChoices(opcodes) :
              \E l \in {ShotLoop(0, shots, simulator, tape, 1, nan_int,
                                 <<>>, <<>>, TRUE, measure_map)} :
                 /\ simulator' = l.sim
                 /\ result' = l.err
                 /\ ret' = l.hist
                 /\ shotlog' = l.log
        /\ lastCall' = Call("measure_shots", "none", <<>>, <<shots>>,
                            FALSE, <<>>)
        /\ UNCHANGED <<config, opcodes, measure_qubits, measure_map>>

\* measure_shots(shots)
measure_shots ==
    \E shots \in 1..MaxShots :
        /\ shots * DrawsPerShot <= MaxDraws
        /\ shots * ReadoutDraws <= MaxReadout
        /\ \E tape \in [1..(shots * (DrawsPerShot + ReadoutDraws))
                          -> DrawVals],
              nan_int \in NanChoices(opcodes) :
              \E l \in {ShotLoop(0, shots, simulator, tape, 1, nan_int,
                                 <<>>, <<>>, FALSE, <<>>)} :
                 /\ simulator' = l.sim
                 /\ result' = l.err
                 /\ ret' = l.hist
                 /\ shotlog' = l.log
        /\ lastCall' = Call("measure_shots", "none", <<>>, <<shots>>,
                            FALSE, <<>>)
        /\ UNCHANGED <<config, opcodes, measure_qubits, measure_map>>

\* Variant: measure_shots(measure_list, shots) packs the outcome under the
\* plan the simulator held before the call.
measure_shots_list_stale ==
    \E M \in MeasureLists, shots \in 1..MaxShots :
        \E pm \in {preprocess_measure_list(M, nqubit)} :
           /\ shots * DrawsPerShot <= MaxDraws
           /\ shots * ReadoutDraws <= MaxReadout
           /\ lastCall' = Call("measure_shots_list", "none", M, <<shots>>,
                               FALSE, <<>>)
           /\ IF pm.err # "ok"
              THEN /\ result' = pm.err
                   /\ ret' = <<>>
                   /\ shotlog' = <<>>
                   /\ UNCHANGED <<simulator, measure_map>>
              ELSE /\ measure_map' = pm.map
                   /\ \E tape \in [1..(shots * (DrawsPerShot + ReadoutDraws))
                                     -> DrawVals],
                         nan_int \in NanChoices(opcodes) :
                         \E l \in {ShotLoop(0, shots, simulator, tape, 1,
                                            nan_int, <<>>, <<>>, TRUE,
                                            measure_map)} :
                            /\ simulator' = l.sim
                            /\ result' = l.err
                            /\ ret' = l.hist
                            /\ shotlog' = l.log
           /\ UNCHANGED <<config, opcodes, measure_qubits>>

\* measure_shots(measure_list, shots)
measure_shots_list ==
    \E M \in MeasureLists, shots \in 1..MaxShots :
        \E pm \in {preprocess_measure_list(M, nqubit)} :
           /\ shots * DrawsPerShot <= MaxDraws
           /\ shots * ReadoutDraws <= MaxReadout
           /\ lastCall' = Call("measure_shots_list", "none", M, <<shots>>,
                               FALSE, <<>>)
           /\ IF pm.err # "ok"
              THEN /\ result' = pm.err
                   /\ ret' = <<>>
                   /\ shotlog' = <<>>
                   /\ UNCHANGED <<simulator, measure_map>>
              ELSE /\ measure_map' = pm.map
                   /\ \E tape \in [1..(shots * (DrawsPerShot + ReadoutDraws))
                                     -> DrawVals],
                         nan_int \in NanChoices(opcodes) :
                         \E l \in {ShotLoop(0, shots, simulator, tape, 1,
                                            nan_int, <<>>, <<>>, TRUE,
                                            pm.map)} :
                            /\ simulator' = l.sim
                            /\ result' = l.err
                            /\ ret' = l.hist
                            /\ shotlog' = l.log
           /\ UNCHANGED <<config, opcodes, measure_qubits>>

\* ---------------------------------------------------------- specifications
RecordStep ==
    \/ id \/ hadamard \/ u22 \/ x \/ y \/ z \/ sx \/ cz \/ swap \/ xy
    \/ iswap \/ cnot \/ rx \/ ry \/ rz \/ rphi90 \/ rphi180 \/ rphi
    \/ toffoli \/ cswap \/ load_opcode

Next == RecordStep \/ measure \/ execute_once \/ measure_shots
        \/ measure_shots_list

Spec == Init /\ [][Next]_vars

\* Recording only, under every policy.
SpecRecord == Init /\ [][RecordStep]_vars

\* Recording of a few gates on a Global simulator, the plan and replay.
InitRun == \E c \in GlobalConfigs : Constructed(c, Cardinality(QubitIds), <<>>)

NextRun == id \/ hadamard \/ x \/ cnot \/ load_opcode \/ measure
           \/ execute_once

SpecRun == InitRun /\ [][NextRun]_vars

\* Every kind of call, one recorder.
NextShots == hadamard \/ measure \/ execute_once \/ measure_shots
             \/ measure_shots_list

InitShots ==
    \E c \in {g \in GlobalConfigs :
                 Cardinality(DOMAIN g.noise_description) <= 1} :
        Constructed(c, Cardinality(QubitIds), <<>>)

SpecShots == InitShots /\ [][NextShots]_vars

\* Shots on a noiseless two-qubit simulator with and without readout error.
InitReadout ==
    \E me \in ReadoutConfigs :
        Constructed(Cfg("Global", EmptyMap, EmptyMap, EmptyMap, EmptyMap),
                    Cardinality(ReadoutQubitIds), me)

NextReadout == hadamard \/ x \/ measure_shots_list

SpecReadout == InitReadout /\ [][NextReadout]_vars

\* The Bell pair on two qubits: no readout error, or qubit 0 read as 1
\* instead of 0 with the grid's probability next to 0.1.
BellReadout == <<<<Den \div 10, 0>>, <<0, 0>>>>

InitBell ==
    \E me \in {<<>>, BellReadout} :
        Constructed(Cfg("Global", EmptyMap, EmptyMap, EmptyMap, EmptyMap),
                    Cardinality(ReadoutQubitIds), me)

NextBell == hadamard \/ cnot \/ measure_shots

SpecBell == InitBell /\ [][NextBell]_vars

\* Three noiseless qubits on which x has been recorded for the qubits of b
\* in increasing order, then toffoli with the arguments of T (none when T
\* is empty); replay and shots follow, and recording while the bound allows.
XProgram(b) ==
    [i \in 1..Cardinality(b) |->
        OpcodeType("X", <<SortedSeq(b)[i]>>, <<>>, FALSE, <<>>)]

ToffoliProgram(T) ==
    IF T = <<>> THEN <<>>
    ELSE <<OpcodeType("TOFFOLI", <<T[1], T[2], T[3]>>, <<>>, T[5], T[4])>>

\* The last of the calls that recorded the program.
LastRecorded(b, T) ==
    IF T # <<>>
    THEN Call("toffoli", "TOFFOLI", <<T[1], T[2], T[3]>>, <<>>, T[5], T[4])
    ELSE IF b # {}
    THEN Call("x", "X", <<SortedSeq(b)[Cardinality(b)]>>, <<>>, FALSE, <<>>)
    ELSE CtorCall(Cfg("Global", EmptyMap, EmptyMap, EmptyMap, EmptyMap))

InitToffoli ==
    \E b \in SUBSET QubitIds, T \in {<<>>} \cup Args3q :
        /\ policy = "Global"
        /\ nqubit = Cardinality(QubitIds)
        /\ noise = EmptyMap
        /\ gate_dependent_noise = EmptyMap
        /\ gate_error1q = EmptyMap
        /\ gate_error2q = EmptyMap
        /\ measurement_error_matrices = <<>>
        /\ opcodes = XProgram(b) \o ToffoliProgram(T)
        /\ simulator = [total_qubit |-> 0, state |-> <<>>, e |-> 0]
        /\ measure_qubits = <<>>
        /\ measure_map = <<>>
        /\ lastCall = LastRecorded(b, T)
        /\ result = "ok"
        /\ ret = <<>>
        /\ shotlog = <<>>

NextToffoli == hadamard \/ toffoli \/ execute_once \/ measure_shots

SpecToffoli == InitToffoli /\ [][NextToffoli]_vars

\* Recording and replay of R-phi gates on a Global simulator.
NextRphi == hadamard \/ rphi \/ execute_once

SpecRphi == InitRun /\ [][NextRphi]_vars

\* Replay of a few gates under one noise channel at a time.
InitNoise ==
    \E c \in NoiseConfigs, Q \in NoiseQubitIds :
        Constructed(c, Cardinality(Q), <<>>)

NextNoise == hadamard \/ x \/ cnot \/ execute_once

SpecNoise == InitNoise /\ [][NextNoise]_vars

\* Construction from descriptions with known and unknown tokens, on the
\* qubits of the menus or on one qubit more than the kernel takes, then a
\* few recording calls.
InitConstruct ==
    \E c \in TokenConfigs,
       n \in {Cardinality(QubitIds), max_qubit_num + 1} :
        Constructed(c, n, <<>>)

NextConstruct == hadamard \/ x \/ cnot

SpecConstruct == InitConstruct /\ [][NextConstruct]_vars

\* ------------------------------------------------------------------ claims
\* The calls that record a gate.
RecordNames == {"id", "hadamard", "u22", "x", "y", "z", "sx", "cz", "swap",
                "xy", "iswap", "cnot", "rx", "ry", "rz", "rphi90", "rphi180",
                "rphi", "toffoli", "cswap", "load_opcode"}

\* The gate opcode a recording call c asks for.
GateOpcodeOf(c) ==
    OpcodeType(c.op, c.qubits, c.parameters, c.dagger, c.global_controller)

\* One noise opcode per (type, p) of map m on qubits Q, types in enum order.
NoiseOpcodesOn(m, Q) ==
    LET types == SelectSeq(NoiseTypes, LAMBDA t : t \in DOMAIN m)
    IN [i \in 1..Len(types) |->
           OpcodeType(types[i], Q, <<m[types[i]]>>, FALSE, <<>>)]

\* C1: on a Global simulator a recording call that succeeds extends the
\* stream by exactly the gate opcode (tag, qubits, parameters, dagger flag,
\* controller set) followed by one noise opcode per entry of the global
\* noise map, each on the same qubits with parameters [p], dagger false and
\* no controllers.
C1_GlobalRecordAppends ==
    [][(policy = "Global" /\ lastCall'.name \in RecordNames /\ result' = "ok")
          => opcodes' = opcodes \o <<GateOpcodeOf(lastCall')>>
                        \o NoiseOpcodesOn(noise, lastCall'.qubits)]_vars

\* C1 witness: a controlled two-qubit gate recorded under two global noise
\* entries.
C1_Witness ==
    /\ policy = "Global"
    /\ lastCall.name = "cnot" /\ result = "ok"
    /\ lastCall.global_controller # <<>>
    /\ Len(opcodes) = 3
    /\ opcodes[1] = GateOpcodeOf(lastCall)
    /\ opcodes[2].op = "Depolarizing" /\ opcodes[2].qubits = lastCall.qubits
    /\ opcodes[3].op = "BitFlip" /\ opcodes[3].parameters = <<Den>>

\* C2: a recording call that ends with an error leaves the stream exactly
\* as it was before the call.
C2_FailedRecordKeepsStream ==
    [][(lastCall'.name \in RecordNames /\ result' # "ok")
          => opcodes' = opcodes]_vars

\* The entry of map m under key k, or the empty map.
EntryOr(m, k) == IF k \in DOMAIN m THEN m[k] ELSE EmptyMap

\* C6: on a gate-dependent simulator a recording call appends the gate
\* opcode, then the global noise opcodes, then (only if the map has an entry
\* for the gate's tag) one noise opcode per entry of it on the same qubits;
\* without an entry the stream grows as under the Global policy.
C6_GateDependentRecordAppends ==
    [][(policy = "GateDependent" /\ lastCall'.name \in RecordNames
           /\ result' = "ok")
          => opcodes' = opcodes \o <<GateOpcodeOf(lastCall')>>
                        \o NoiseOpcodesOn(noise, lastCall'.qubits)
                        \o NoiseOpcodesOn(
                               EntryOr(gate_dependent_noise, lastCall'.op),
                               lastCall'.qubits)]_vars

\* C6 witness: a gate with an entry of two noise types recorded after the
\* global noise.
C6_Witness ==
    /\ policy = "GateDependent"
    /\ lastCall.name = "cnot" /\ result = "ok"
    /\ "CNOT" \in DOMAIN gate_dependent_noise
    /\ Len(opcodes) = 4
    /\ opcodes[2] = OpcodeType("PhaseFlip", lastCall.qubits, <<Half>>,
                               FALSE, <<>>)
    /\ opcodes[3] = OpcodeType("PhaseFlip", lastCall.qubits, <<0>>,
                               FALSE, <<>>)
    /\ opcodes[4].op = "TwoQubitDepolarizing"

\* The crosstalk opcodes of 1-qubit gate g on q: for every key (g, (q, q'))
\* of gate_error2q, by increasing q', its entries on (q, q').
CrosstalkOpcodes(g, q) ==
    SeqConcat([k \in 1..nqubit |->
                  NoiseOpcodesOn(EntryOr(gate_error2q, <<g, <<q, k - 1>>>>),
                                 <<q, k - 1>>)])

\* C7: on a gate-and-qubit-specific simulator, recording a 1-qubit gate g
\* on q appends the gate opcode, the global noise opcodes on q, the entries
\* of gate_error1q[(g, q)] on q, then the entries of every key (g, (q, q'))
\* of gate_error2q on (q, q'); no other key contributes.
C7_GateSpecific1qRecordAppends ==
    [][(policy = "GateSpecific" /\ lastCall'.name \in RecordNames
           /\ lastCall'.op \in Gates1q)
          => /\ result' = "ok"
             /\ opcodes' = opcodes \o <<GateOpcodeOf(lastCall')>>
                  \o NoiseOpcodesOn(noise, lastCall'.qubits)
                  \o NoiseOpcodesOn(
                         EntryOr(gate_error1q,
                                 <<lastCall'.op, lastCall'.qubits[1]>>),
                         lastCall'.qubits)
                  \o CrosstalkOpcodes(lastCall'.op, lastCall'.qubits[1])]_vars

\* C7 witness: x on qubit 0 with a 1-qubit entry, two crosstalk keys of
\* qubit 0 and a crosstalk key of another first qubit.
C7_Witness ==
    /\ policy = "GateSpecific"
    /\ lastCall.name = "x" /\ lastCall.qubits = <<0>> /\ result = "ok"
    /\ <<"X", <<1, 0>>>> \in DOMAIN gate_error2q
    /\ <<"Y", <<0, 1>>>> \in DOMAIN gate_error2q
    /\ Len(opcodes) = 5
    /\ opcodes[2] = OpcodeType("PhaseFlip", <<0>>, <<Half>>, FALSE, <<>>)
    /\ opcodes[3] = OpcodeType("BitFlip", <<0>>, <<Den>>, FALSE, <<>>)
    /\ opcodes[4].op = "TwoQubitDepolarizing" /\ opcodes[4].qubits = <<0, 1>>
    /\ opcodes[5].op = "TwoQubitDepolarizing" /\ opcodes[5].qubits = <<0, 2>>

\* C8: on a gate-and-qubit-specific simulator, recording a 2-qubit gate g
\* on (q1, q2) appends the gate opcode, the global noise opcodes on
\* (q1, q2), the entries of gate_error2q[(g, (q1, q2))] on (q1, q2), those of
\* gate_error1q[(g, q1)] on q1 and those of gate_error1q[(g, q2)] on q2; the
\* key of the reversed pair is not used.
C8_GateSpecific2qRecordAppends ==
    [][(policy = "GateSpecific" /\ lastCall'.name \in RecordNames
           /\ lastCall'.op \in Gates2q)
          => /\ result' = "ok"
             /\ opcodes' = opcodes \o <<GateOpcodeOf(lastCall')>>
                  \o NoiseOpcodesOn(noise, lastCall'.qubits)
                  \o NoiseOpcodesOn(
                         EntryOr(gate_error2q,
                                 <<lastCall'.op, lastCall'.qubits>>),
                         lastCall'.qubits)
                  \o NoiseOpcodesOn(
                         EntryOr(gate_error1q,
                                 <<lastCall'.op, lastCall'.qubits[1]>>),
                         <<lastCall'.qubits[1]>>)
                  \o NoiseOpcodesOn(
                         EntryOr(gate_error1q,
                                 <<lastCall'.op, lastCall'.qubits[2]>>),
                         <<lastCall'.qubits[2]>>)]_vars

\* C8 witness: cnot on (0, 1) where both (0, 1) and (1, 0) are keys with
\* different probabilities and both qubits have a 1-qubit entry.
C8_Witness ==
    /\ policy = "GateSpecific"
    /\ lastCall.name = "cnot" /\ lastCall.qubits = <<0, 1>> /\ result = "ok"
    /\ <<"CNOT", <<1, 0>>>> \in DOMAIN gate_error2q
    /\ Len(opcodes) = 7
    /\ opcodes[2] = OpcodeType("PhaseFlip", <<0, 1>>, <<Half>>, FALSE, <<>>)
    /\ opcodes[3] = OpcodeType("Depolarizing", <<0, 1>>, <<0>>, FALSE, <<>>)
    /\ opcodes[4].op = "TwoQubitDepolarizing" /\ opcodes[4].qubits = <<0, 1>>
    /\ opcodes[5] = OpcodeType("Depolarizing", <<0>>, <<Half>>, FALSE, <<>>)
    /\ opcodes[6] = OpcodeType("Damping", <<1>>, <<Den>>, FALSE, <<>>)
    /\ opcodes[7] = OpcodeType("BitFlip", <<1>>, <<0>>, FALSE, <<>>)

\* C3: a call of execute_once starts from |0...0>, applies every opcode of
\* the stream once in insertion order, and leaves the state that replay
\* produced.
C3_ReplayAppliesWholeStream ==
    lastCall.name = "execute_once"
        => /\ Len(shotlog) = 1
           /\ shotlog[1].states[1] = init_n_qubit(nqubit)
           /\ shotlog[1].applied = [k \in 1..Len(opcodes) |-> k]
           /\ simulator = shotlog[1].states[Len(shotlog[1].states)]

\* C4: on a stream built by the recording methods with valid arguments,
\* execute_once never ends with the unhandled-opcode runtime error.
C4_EveryRecordedGateDispatched ==
    lastCall.name = "execute_once"
        => result # "RuntimeError: Failed to handle opcode"

\* Qubit c is in |0>: no amplitude of an index with bit c set.
InZero(sim, c) ==
    \A i \in DOMAIN sim.state : Bit(i, c) = 1 => sim.state[i] = ZERO

\* C5: in a replay, a gate opcode with a non-empty controller set leaves the
\* state unchanged whenever one of its controller qubits is in |0> at that
\* point.
C5_ControllerInZeroLeavesState ==
    \A s \in 1..Len(shotlog) :
        \A j \in 1..Len(shotlog[s].applied) :
            LET oc == opcodes[shotlog[s].applied[j]]
                before == shotlog[s].states[j]
                after == shotlog[s].states[j + 1]
            IN (/\ IsGate(oc)
                /\ oc.global_controller # <<>>
                /\ \E k \in 1..Len(oc.global_controller) :
                       InZero(before, oc.global_controller[k]))
               => after = before

\* C9: a recording call leaves the state vector, the measurement plan and
\* the noise configuration as they were; only the stream may differ.
C9_RecordingTouchesOnlyStream ==
    [][lastCall'.name \in RecordNames
          => UNCHANGED <<simulator, measure_qubits, measure_map, config>>]_vars

\* C9 witness: a gate recorded after a replay left a state other than
\* |0...0> and after a plan was set.
C9_Witness ==
    /\ lastCall.name = "x" /\ result = "ok"
    /\ simulator.total_qubit = nqubit
    /\ simulator # init_n_qubit(nqubit)
    /\ measure_qubits = <<1, 0>>
    /\ DOMAIN measure_map = {0, 1}
    /\ Len(opcodes) > 1

\* C10: every step leaves the old stream a prefix of the new one, and a
\* step that is not a recording call (measure, execute_once, both
\* measure_shots) leaves the stream unchanged.
C10_StreamAppendOnly ==
    [][/\ IsPrefix(opcodes, opcodes')
       /\ (lastCall'.name \notin RecordNames => opcodes' = opcodes)]_vars

\* C10 witness: two shots of measure_shots(measure_list, shots) ran over a
\* non-empty stream and the stream is still there.
C10_Witness ==
    /\ lastCall.name = "measure_shots_list" /\ result = "ok"
    /\ Len(shotlog) = 2
    /\ opcodes # <<>>
    /\ shotlog[2].applied = [k \in 1..Len(opcodes) |-> k]

\* Invariant I2 on one opcode of a simulator of n qubits.
I2(oc, n) ==
    /\ Range(oc.qubits) \cap Range(oc.global_controller) = {}
    /\ \A q \in Range(oc.qubits) \cup Range(oc.global_controller) : q < n

\* C11: after any sequence of recording calls every opcode of the stream has
\* its qubits and its controller set disjoint and all indices below n.
C11_StreamSatisfiesI2 ==
    \A k \in 1..Len(opcodes) : I2(opcodes[k], nqubit)

\* The compact index of outcome v under measure list M: bit j - 1 of the
\* result is bit M[j] of v.
RECURSIVE CompactIndex(_, _, _)
CompactIndex(v, M, j) ==
    IF j > Len(M) THEN 0
    ELSE Bit(v, M[j]) * pow2(j - 1) + CompactIndex(v, M, j + 1)

\* Bit b read out under the pair me of flip probabilities and the draw r.
ReadoutBit(b, me, r) ==
    IF b = 1 THEN (IF r < me[2] THEN 0 ELSE 1)
    ELSE (IF r < me[1] THEN 1 ELSE 0)

\* Index idx read out under readout_error and one draw per qubit, every bit
\* decided from the sampled index alone.
RECURSIVE ReadoutBits(_, _, _, _)
ReadoutBits(idx, readout_error, rs, i) ==
    IF i >= Len(readout_error) THEN 0
    ELSE ReadoutBit(Bit(idx, i), readout_error[i + 1], rs[i + 1]) * pow2(i)
         + ReadoutBits(idx, readout_error, rs, i + 1)

apply_readout_error(idx, readout_error, rs) ==
    IF readout_error = <<>> THEN idx
    ELSE ReadoutBits(idx, readout_error, rs, 0)

\* The index the sampler picks in shot record s.
SampledIn(s) ==
    get_measure_no_readout_error(s.states[Len(s.states)], s.mdraws[1]).val

\* The bucket of shot record s under measure list M.
BucketOf(s, M) == CompactIndex(s.meas[1], M, 1)

RECURSIVE HistogramTotal(_, _)
HistogramTotal(h, K) ==
    IF K = {} THEN 0
    ELSE LET k == CHOOSE j \in K : TRUE
         IN h[k] + HistogramTotal(h, K \ {k})

\* C12: a measure_shots(M, shots) that returns has run exactly shots shots;
\* each replayed the whole stream from the zero state, sampled an index from
\* the final state, applied the readout error to it and counted once in the
\* bucket whose key packs the bits of M in the given order from bit 0; the
\* counts of the histogram sum to shots.
C12_ShotsFillHistogram ==
    (lastCall.name = "measure_shots_list" /\ result = "ok")
        => /\ Len(shotlog) = lastCall.parameters[1]
           /\ \A k \in 1..Len(shotlog) :
                 /\ shotlog[k].err = "ok"
                 /\ shotlog[k].applied = [j \in 1..Len(opcodes) |-> j]
                 /\ shotlog[k].states[1] = init_n_qubit(nqubit)
                 /\ shotlog[k].meas =
                        <<apply_readout_error(SampledIn(shotlog[k]),
                                              measurement_error_matrices,
                                              Tail(shotlog[k].mdraws))>>
           /\ DOMAIN ret = {BucketOf(shotlog[k], lastCall.qubits) :
                               k \in 1..Len(shotlog)}
           /\ \A b \in DOMAIN ret :
                 ret[b] = Cardinality({k \in 1..Len(shotlog) :
                              BucketOf(shotlog[k], lastCall.qubits) = b})
           /\ HistogramTotal(ret, DOMAIN ret) = lastCall.parameters[1]

\* C12 witness: two shots over a Hadamard with a readout error that flipped
\* a bit, counted in two buckets, one of them with a key that differs from
\* the measured index.
C12_Witness ==
    /\ lastCall.name = "measure_shots_list" /\ result = "ok"
    /\ lastCall.parameters = <<2>>
    /\ opcodes # <<>>
    /\ measurement_error_matrices # <<>>
    /\ shotlog[1].meas # <<SampledIn(shotlog[1])>>
    /\ Cardinality(DOMAIN ret) = 2
    /\ \E k \in 1..2 : BucketOf(shotlog[k], lastCall.qubits)
                           # shotlog[k].meas[1]

\* Sum of |psi[j]|^2 over j <= i, as <<u, v>> for (u + v*sqrt(2)) / 2^e.
RECURSIVE CumulativeProb(_, _)
CumulativeProb(sim, i) ==
    IF i < 0 THEN <<0, 0>>
    ELSE <<abs_sqr(sim.state[i])[1] + CumulativeProb(sim, i - 1)[1],
           abs_sqr(sim.state[i])[2] + CumulativeProb(sim, i - 1)[2]>>

\* The running value of the sampler after |psi[i]|^2 was subtracted
\* (r less the sum up to i) is negative, resp. positive.
RunningNegative(sim, r, i) ==
    Sqrt2Pos(Den * CumulativeProb(sim, i)[1] - r * pow2(sim.e),
             Den * CumulativeProb(sim, i)[2])

RunningPositive(sim, r, i) ==
    Sqrt2Pos(r * pow2(sim.e) - Den * CumulativeProb(sim, i)[1],
             0 - Den * CumulativeProb(sim, i)[2])

Indices(sim) == 0..(pow2(sim.total_qubit) - 1)

Least(S) == CHOOSE i \in S : \A j \in S : i <= j

\* What a walk returns that stops at the first index of S.
WalkResult(S) ==
    IF S = {}
    THEN [err |-> "RuntimeError: get_measure internal fatal error", val |-> 0]
    ELSE [err |-> "ok", val |-> Least(S)]

\* The final states the shots of the last measure_shots call sampled from.
SampledStates ==
    IF lastCall.name = "measure_shots_list"
    THEN {shotlog[k].states[Len(shotlog[k].states)] :
             k \in {j \in 1..Len(shotlog) : shotlog[j].err = "ok"}}
    ELSE {}

\* C13 as stated: the sampler returns the first index at which the running
\* value is non-positive and fails exactly when there is none.
C13_SamplerFirstNonPositive ==
    \A sim \in SampledStates : \A r \in 0..(Den - 1) :
        get_measure_no_readout_error(sim, r)
            = WalkResult({i \in Indices(sim) : ~RunningPositive(sim, r, i)})

\* C13 amended: the sampler returns the first index at which the running
\* value is negative (r is below the sum of |psi[j]|^2 up to that index) and
\* fails exactly when there is none.
C13_SamplerFirstNegative ==
    \A sim \in SampledStates : \A r \in 0..(Den - 1) :
        get_measure_no_readout_error(sim, r)
            = WalkResult({i \in Indices(sim) : RunningNegative(sim, r, i)})

\* C13 witness: a shot drew r = 0 on a state whose amplitude 0 is zero and
\* the sampler moved on to index 1.
C13_Witness ==
    /\ lastCall.name = "measure_shots_list" /\ result = "ok"
    /\ measurement_error_matrices = <<>>
    /\ \E k \in 1..Len(shotlog) :
          /\ shotlog[k].mdraws = <<0>>
          /\ abs_sqr(shotlog[k].states[Len(shotlog[k].states)].state[0])
                 = <<0, 0>>
          /\ shotlog[k].meas = <<1>>

\* C14: get_measure returns the sampled index when the readout error is
\* empty; otherwise it makes one draw per qubit and bit i of the result is
\* the sampled bit i, flipped to 0 when it is 1 and r < readout_error[i].1
\* and to 1 when it is 0 and r < readout_error[i].0.  Stated for the shots
\* of the last call, and for every index and every draw the readout loop of
\* this simulator can be given.
C14_ReadoutFlipsPerBit ==
    /\ (lastCall.name = "measure_shots_list" /\ result = "ok")
          => \A k \in 1..Len(shotlog) :
                IF measurement_error_matrices = <<>>
                THEN /\ Len(shotlog[k].mdraws) = 1
                     /\ shotlog[k].meas = <<SampledIn(shotlog[k])>>
                ELSE /\ Len(shotlog[k].mdraws) = 1 + nqubit
                     /\ \A i \in 0..(nqubit - 1) :
                           Bit(shotlog[k].meas[1], i)
                               = ReadoutBit(Bit(SampledIn(shotlog[k]), i),
                                            measurement_error_matrices[i + 1],
                                            shotlog[k].mdraws[i + 2])
    /\ Len(measurement_error_matrices) = nqubit
          => \A idx \in 0..(pow2(nqubit) - 1),
                rs \in [1..nqubit -> DrawVals] :
                ReadoutFrom(idx, 0, rs, 1)
                    = apply_readout_error(idx, measurement_error_matrices,
                                          rs)

\* C14 witness: one shot sampled 1 and read 2: bit 0 went from 1 to 0 and
\* bit 1 from 0 to 1, each once.
C14_Witness ==
    /\ lastCall.name = "measure_shots_list" /\ result = "ok"
    /\ Len(measurement_error_matrices) = nqubit
    /\ \E k \in 1..Len(shotlog) :
          /\ SampledIn(shotlog[k]) = 1
          /\ shotlog[k].meas = <<2>>

\* The draws the last measure_shots call consumed, in order.
RECURSIVE CallTape(_)
CallTape(log) ==
    IF log = <<>> THEN <<>>
    ELSE Head(log).draws \o Head(log).mdraws \o CallTape(Tail(log))

\* The bucket of shot s (from 1) of a simulator without readout error that
\* is given the draws of tape: every shot takes DrawsPerShot of them.
NoReadoutBucket(tape, s, nan_int) ==
    get_state_with_qubit(
        get_measure_no_readout_error(
            ExecuteOnce(simulator, opcodes, tape,
                        (s - 1) * DrawsPerShot + 1, nan_int).sim,
            tape[s * DrawsPerShot]).val,
        measure_map)

NoReadoutHistogram(tape, shots, nan_int) ==
    [b \in {NoReadoutBucket(tape, s, nan_int) : s \in 1..shots} |->
        Cardinality({s \in 1..shots : NoReadoutBucket(tape, s, nan_int) = b})]

\* C15: with a readout error of length n whose flip probabilities are all
\* zero, measure_shots returns the histogram a simulator without readout
\* error returns for the same stream, shot count and sequence of draws.
C15_ZeroReadoutSameHistogram ==
    (/\ lastCall.name = "measure_shots_list" /\ result = "ok"
     /\ Len(measurement_error_matrices) = nqubit
     /\ \A i \in 1..nqubit : measurement_error_matrices[i] = <<0, 0>>)
        => \A nan_int \in NanChoices(opcodes) :
              ret = NoReadoutHistogram(CallTape(shotlog),
                                       lastCall.parameters[1], nan_int)

\* The record of the replay the last execute_once made.
Replayed == lastCall.name = "execute_once" /\ Len(shotlog) = 1

\* The draw a noise opcode at index k of the stream made for its first
\* qubit.
DrawOf(k) == shotlog[1].draws[DrawsNeeded(SubSeq(opcodes, 1, k - 1)) + 1]

\* Step j of the replay: the opcode, the state before and the state after.
OpcodeAt(j) == opcodes[shotlog[1].applied[j]]
Before(j) == shotlog[1].states[j]
After(j) == shotlog[1].states[j + 1]

\* What Depolarizing, BitFlip and PhaseFlip with parameter p are to do to
\* sim on qubit q under the draw r.
FiresBelowP(op, sim, q, p, r) ==
    IF r >= p THEN sim
    ELSE CASE op = "BitFlip" -> simulator_x(sim, q, NoGc, FALSE).sim
           [] op = "PhaseFlip" -> simulator_z(sim, q, NoGc, FALSE).sim
           [] op = "Depolarizing" ->
                 IF 3 * r < p THEN simulator_x(sim, q, NoGc, FALSE).sim
                 ELSE IF 3 * r < 2 * p
                 THEN simulator_y(sim, q, NoGc, FALSE).sim
                 ELSE simulator_z(sim, q, NoGc, FALSE).sim

\* C16: Depolarizing(q, p) does nothing when r >= p and otherwise applies X
\* when r < p/3, Y when p/3 <= r < 2p/3 and Z when 2p/3 <= r < p; BitFlip
\* applies X exactly when r < p and PhaseFlip applies Z exactly when r < p.
C16_ChannelsFireBelowP ==
    Replayed
        => \A j \in 1..Len(shotlog[1].applied) :
              (/\ OpcodeAt(j).op \in {"Depolarizing", "BitFlip", "PhaseFlip"}
               /\ Len(OpcodeAt(j).qubits) = 1)
                 => After(j) = FiresBelowP(OpcodeAt(j).op, Before(j),
                                           OpcodeAt(j).qubits[1],
                                           OpcodeAt(j).parameters[1],
                                           DrawOf(shotlog[1].applied[j]))

\* The opcode at which the replay stopped with an error, if it did.
FailedAt == Len(shotlog[1].applied) + 1

ZeroChannel(oc) ==
    /\ oc.op \in {"Depolarizing", "BitFlip", "PhaseFlip", "Damping"}
    /\ oc.parameters = <<0>>

\* C17: with probability parameter 0 the channels depolarizing, bitflip,
\* phaseflip and damping leave the state as it is under every draw, r = 0
\* included, and do not fail.
C17_ZeroChannelsAreIdentity ==
    Replayed
        => /\ \A j \in 1..Len(shotlog[1].applied) :
                 ZeroChannel(OpcodeAt(j)) => After(j) = Before(j)
           /\ (result # "ok" /\ FailedAt <= Len(opcodes))
                 => ~ZeroChannel(opcodes[FailedAt])

\* The Pauli numbered k on qubit q: 0, 1, 2, 3 for I, X, Y, Z.
PauliOn(sim, k, q) ==
    CASE k = 0 -> sim
      [] k = 1 -> simulator_x(sim, q, NoGc, FALSE).sim
      [] k = 2 -> simulator_y(sim, q, NoGc, FALSE).sim
      [] k = 3 -> simulator_z(sim, q, NoGc, FALSE).sim

\* C18: TwoQubitDepolarizing(q1, q2, p) does nothing when r >= p; when it
\* fires, k = floor(15 r / p) + 1 is in 1..15, Pauli k mod 4 is applied on
\* q1 and Pauli floor(k / 4) on q2; the call never fails.
C18_TwoQubitDepolarizingInRange ==
    Replayed
        => /\ \A j \in 1..Len(shotlog[1].applied) :
                 (/\ OpcodeAt(j).op = "TwoQubitDepolarizing"
                  /\ Len(OpcodeAt(j).qubits) = 2)
                    => LET r == DrawOf(shotlog[1].applied[j])
                           pp == OpcodeAt(j).parameters[1]
                           k == (15 * r) \div pp + 1
                       IN IF r >= pp THEN After(j) = Before(j)
                          ELSE /\ k \in 1..15
                               /\ After(j)
                                    = PauliOn(PauliOn(Before(j), k % 4,
                                                      OpcodeAt(j).qubits[1]),
                                              k \div 4,
                                              OpcodeAt(j).qubits[2])
           /\ (result # "ok" /\ FailedAt <= Len(opcodes))
                 => ~(/\ opcodes[FailedAt].op = "TwoQubitDepolarizing"
                      /\ Len(opcodes[FailedAt].qubits) = 2
                      /\ ValidQubits(shotlog[1].states[FailedAt],
                                     opcodes[FailedAt].qubits, NoGc))

\* The indices with bit q set, and the weight of sim on them.
OnesOf(sim, q) == {i \in DOMAIN sim.state : Bit(i, q) = 1}

\* r < p1 for p1 = p * (sum of |psi[i]|^2 over the indices with bit q set).
Decays(sim, q, p, r) ==
    Sqrt2Pos(p * NormOver(sim.state, OnesOf(sim, q))[1] - r * pow2(sim.e),
             p * NormOver(sim.state, OnesOf(sim, q))[2])

\* Every amplitude with bit q set moved to its partner and zeroed.
Moved(sim, q) ==
    [sim EXCEPT !.state = [i \in DOMAIN sim.state |->
                              IF Bit(i, q) = 1 THEN ZERO
                              ELSE sim.state[i + pow2(q)]]]

\* The amplitudes with bit q set scaled by sqrt(1 - p), for the p whose
\* root the number model holds.
Scaled(sim, q, p) ==
    IF p = Den
    THEN [sim EXCEPT !.state = [i \in DOMAIN sim.state |->
                                   IF Bit(i, q) = 1 THEN ZERO
                                   ELSE sim.state[i]]]
    ELSE [sim EXCEPT !.state = [i \in DOMAIN sim.state |->
                                   IF Bit(i, q) = 1 THEN sim.state[i]
                                   ELSE ZMulSqrt2Pow(sim.state[i],
                                                     SqrtOneMinus(p))],
                     !.e = sim.e + SqrtOneMinus(p)]

XThenFullDamping ==
    <<OpcodeType("X", <<0>>, <<>>, FALSE, <<>>),
      OpcodeType("Damping", <<0>>, <<Den>>, FALSE, <<>>)>>

\* C19: damping(q, p) draws one r; when r < p1 it moves every amplitude
\* with bit q set to its partner and zeroes it, otherwise it scales those
\* amplitudes by sqrt(1 - p); the state is then renormalised.  On one
\* qubit, X(0) followed by damping with p = 1 ends in psi = (1, 0), from
\* which every draw samples outcome 0.
C19_DampingDecaysOrScales ==
    Replayed
        => /\ \A j \in 1..Len(shotlog[1].applied) :
                 (OpcodeAt(j).op = "Damping" /\ Len(OpcodeAt(j).qubits) = 1)
                    => After(j)
                         = normalize_state_vector(
                               IF Decays(Before(j), OpcodeAt(j).qubits[1],
                                         OpcodeAt(j).parameters[1],
                                         DrawOf(shotlog[1].applied[j]))
                               THEN Moved(Before(j), OpcodeAt(j).qubits[1])
                               ELSE Scaled(Before(j), OpcodeAt(j).qubits[1],
                                           OpcodeAt(j).parameters[1])).sim
           /\ (nqubit = 1 /\ opcodes = XThenFullDamping)
                 => /\ result = "ok"
                    /\ simulator = init_n_qubit(1)
                    /\ \A r \in 0..(Den - 1) :
                          get_measure_no_readout_error(simulator, r)
                              = [err |-> "ok", val |-> 0]

\* C19 witness: on one qubit X(0) put the qubit in |1> and damping with
\* p = 1 brought it back to |0>.
C19_Witness ==
    /\ Replayed /\ result = "ok"
    /\ nqubit = 1 /\ opcodes = XThenFullDamping
    /\ shotlog[1].applied = <<1, 2>>
    /\ shotlog[1].states[2].state[1] = ONE
    /\ simulator = init_n_qubit(1)

\* The noise name tokens.
NoiseTokens == {"depolarizing", "damping", "bitflip", "phaseflip",
                "twoqubit_depolarizing"}

\* Every token of description d is a noise name and map m holds its
\* probability under its noise type.
TokensLoaded(d, m) ==
    \A t \in DOMAIN d :
        /\ t \in NoiseTokens
        /\ string_to_NoiseType(t).val \in DOMAIN m
        /\ m[string_to_NoiseType(t).val] = d[t]

\* C20: a simulator is constructed only from descriptions whose tokens are
\* all noise names (any other token makes the constructor fail), and it
\* holds every token it was given: in the global map, in the gate-dependent
\* map and in the gate-specific maps.
C20_UnknownTokensRejected ==
    lastCall.name = "constructor"
        => /\ TokensLoaded(lastCall.description.noise_description, noise)
           /\ policy = "GateDependent"
                 => \A g \in DOMAIN lastCall.description.gate_noise_description :
                       TokensLoaded(
                           lastCall.description.gate_noise_description[g],
                           gate_dependent_noise[g])
           /\ policy = "GateSpecific"
                 => /\ \A k \in DOMAIN
                               lastCall.description.gate_error1q_description :
                          TokensLoaded(
                              lastCall.description.gate_error1q_description[k],
                              gate_error1q[k])
                    /\ \A k \in DOMAIN
                               lastCall.description.gate_error2q_description :
                          TokensLoaded(
                              lastCall.description.gate_error2q_description[k],
                              gate_error2q[k])

\* C21: no simulator with more than max_qubit_num qubits exists on which a
\* gate can be recorded: the constructor fails for n > 30.
C21_NoRecordingAbove30 ==
    (lastCall.name \in RecordNames /\ result = "ok")
        => nqubit <= max_qubit_num

\* A channel opcode on a qubit the simulator does not have, or with a
\* probability outside [0, 1].
BadChannel(oc) ==
    /\ oc.op \in {"Depolarizing", "Damping", "BitFlip", "PhaseFlip",
                  "TwoQubitDepolarizing"}
    /\ \/ \E q \in Range(oc.qubits) : q >= nqubit
       \/ oc.parameters[1] < 0
       \/ oc.parameters[1] > Den

\* C22: a channel given a qubit index >= n or a probability outside [0, 1]
\* fails with invalid-argument under every draw: the replay never gets past
\* such an opcode, and the error it stops with there is invalid-argument.
C22_BadChannelFails ==
    Replayed
        => /\ \A j \in 1..Len(shotlog[1].applied) : ~BadChannel(OpcodeAt(j))
           /\ (result # "ok" /\ FailedAt <= Len(opcodes)
                  /\ BadChannel(opcodes[FailedAt]))
                 => result = "InvalidArgument"

\* C23: with a readout error that is not empty and whose length is not n,
\* measuring fails whatever index was sampled: no shot has an outcome,
\* measure_shots returns no histogram, and a shot whose replay went through
\* ends with the size error of get_measure.
C23_WrongReadoutLengthFails ==
    (/\ lastCall.name = "measure_shots_list"
     /\ measurement_error_matrices # <<>>
     /\ Len(measurement_error_matrices) # nqubit)
        => /\ result # "ok"
           /\ ret = <<>>
           /\ \A k \in 1..Len(shotlog) : shotlog[k].meas = <<>>
           /\ (shotlog # <<>> /\ shotlog[Len(shotlog)].err = "ok")
                 => result = "RuntimeError: measurement_error_matrices size"

\* C23 witness: the first shot replayed a Hadamard, sampled with one draw
\* and failed on the length of the readout error.
C23_Witness ==
    /\ lastCall.name = "measure_shots_list"
    /\ Len(measurement_error_matrices) = 1 /\ nqubit = 2
    /\ opcodes # <<>>
    /\ Len(shotlog) = 1
    /\ shotlog[1].err = "ok" /\ shotlog[1].applied # <<>>
    /\ Len(shotlog[1].mdraws) = 1
    /\ result = "RuntimeError: measurement_error_matrices size"

\* The measure list 0, 1, ..., n - 1.
EveryQubit == [i \in 1..nqubit |-> i - 1]

\* The histogram measure_shots(measure_list, shots) returns on this stream
\* and configuration when it is given the draws of tape.
ListHistogram(measure_list, shots, tape, nan_int) ==
    ShotLoop(0, shots, simulator, tape, 1, nan_int, <<>>, <<>>, TRUE,
             preprocess_measure_list(measure_list, nqubit).map).hist

\* C24: measure_shots(shots) returns the histogram that
\* measure_shots([0, ..., n-1], shots) returns for the same stream,
\* configuration and draws, whatever plan measure() set before.
C24_NoListIsFullList ==
    (lastCall.name = "measure_shots" /\ result = "ok")
        => \A nan_int \in NanChoices(opcodes) :
              ret = ListHistogram(EveryQubit, lastCall.parameters[1],
                                  CallTape(shotlog), nan_int)

\* C24 witness: a plan that reverses two qubits was set, and a later
\* measure_shots(shots) counted the full outcome 1, which that plan would
\* have packed as 2.
C24_Witness ==
    /\ lastCall.name = "measure_shots" /\ result = "ok"
    /\ measure_qubits = <<1, 0>> /\ DOMAIN measure_map = {0, 1}
    /\ opcodes # <<>>
    /\ 1 \in DOMAIN ret
    /\ get_state_with_qubit(1, measure_map) = 2

\* The recorded program H(0); CNOT(0,1).
BellProgram ==
    opcodes = <<OpcodeType("HADAMARD", <<0>>, <<>>, FALSE, <<>>),
                OpcodeType("CNOT", <<0, 1>>, <<>>, FALSE, <<>>)>>

\* The outcomes measure_shots may count after BellProgram.
BellOutcomes ==
    IF measurement_error_matrices = <<>> THEN {0, 3} ELSE {0, 1, 3}

\* The outcomes that measure_shots(1) returns from the current state under
\* some draws.
OneShotOutcomes ==
    UNION {DOMAIN ShotLoop(0, 1, simulator, tape, 1, nan_int, <<>>, <<>>,
                           FALSE, <<>>).hist :
               tape \in [1..(DrawsPerShot + ReadoutDraws) -> DrawVals],
               nan_int \in NanChoices(opcodes)}

\* C25: on two noiseless qubits with the recorded program H(0); CNOT(0,1),
\* measure_shots counts only the outcomes 0b00 and 0b11 whatever the draws;
\* when qubit 0 alone has a readout error, and only from 0 to 1, it counts
\* only 0b00, 0b01 and 0b11, never 0b10, and each of the three is counted
\* under some draws.
C25_BellOutcomes ==
    (nqubit = 2 /\ BellProgram)
        => /\ lastCall.name = "measure_shots"
                => result = "ok" /\ DOMAIN ret \subseteq BellOutcomes
           /\ \A o \in BellOutcomes : o \in OneShotOutcomes

C25_Witness ==
    /\ nqubit = 2 /\ BellProgram
    /\ measurement_error_matrices = BellReadout
    /\ lastCall.name = "measure_shots" /\ result = "ok"
    /\ DOMAIN ret = {1, 3}

\* The recorded program X(0); X(1); Toffoli(0,1,2).
XXToffoli ==
    <<OpcodeType("X", <<0>>, <<>>, FALSE, <<>>),
      OpcodeType("X", <<1>>, <<>>, FALSE, <<>>),
      OpcodeType("TOFFOLI", <<0, 1, 2>>, <<>>, FALSE, <<>>)>>

\* The indices at which sim has a nonzero amplitude.
Support(sim) == {i \in DOMAIN sim.state : sim.state[i] # ZERO}

\* Basis index i with bit target flipped when bits qn1 and qn2 are both 1.
ToffoliImage(i, qn1, qn2, target) ==
    IF Bit(i, qn1) = 1 /\ Bit(i, qn2) = 1
    THEN (IF Bit(i, target) = 1 THEN i - pow2(target) ELSE i + pow2(target))
    ELSE i

\* sim with the amplitude at index i moved to index j.
MovedTo(sim, i, j) ==
    [sim EXCEPT !.state = [k \in DOMAIN sim.state |->
                              IF k = j THEN sim.state[i] ELSE ZERO]]

\* C26: on three noiseless qubits with the recorded program X(0); X(1);
\* Toffoli(0,1,2), every shot of measure_shots yields outcome 0b111 whatever
\* the draws; and every Toffoli replayed on a basis state moves the
\* amplitude to the index with the target bit flipped when both control
\* bits are 1, and leaves the state as it is otherwise.
C26_ToffoliFlipsOnBothControls ==
    /\ (opcodes = XXToffoli /\ lastCall.name = "measure_shots")
           => /\ result = "ok"
              /\ DOMAIN ret = {7}
              /\ ret[7] = lastCall.parameters[1]
    /\ \A k \in 1..Len(shotlog) :
          \A j \in 1..Len(shotlog[k].applied) :
             \A i \in DOMAIN shotlog[k].states[j].state :
                (/\ opcodes[shotlog[k].applied[j]].op = "TOFFOLI"
                 /\ Support(shotlog[k].states[j]) = {i})
                    => shotlog[k].states[j + 1] =
                          MovedTo(shotlog[k].states[j], i,
                                  ToffoliImage(
                                      i,
                                      opcodes[shotlog[k].applied[j]].qubits[1],
                                      opcodes[shotlog[k].applied[j]].qubits[2],
                                      opcodes[shotlog[k].applied[j]].qubits[3]))

C26_Witness ==
    /\ opcodes = XXToffoli
    /\ lastCall.name = "measure_shots" /\ lastCall.parameters = <<2>>
    /\ ret[7] = 2
    /\ Support(shotlog[2].states[3]) = {3}
    /\ Support(shotlog[2].states[4]) = {7}

\* A simulator on which nothing has run yet.
FreshKernel == [total_qubit |-> 0, state |-> <<>>, e |-> 0]

\* What a shot loop returns on a simulator that has the opcode stream and
\* the configuration of this one and has run nothing, under the draws of
\* tape: the histogram and the error.
FreshRun(shots, tape, nan_int, packed, map) ==
    [hist |-> ShotLoop(0, shots, FreshKernel, tape, 1, nan_int, <<>>, <<>>,
                       packed, map).hist,
     err |-> ShotLoop(0, shots, FreshKernel, tape, 1, nan_int, <<>>, <<>>,
                      packed, map).err]

\* C27: the histogram and the error a measure_shots call returns are those
\* of a simulator with the same opcode stream and configuration that has
\* run nothing before, given the same draws: what was replayed, measured
\* or planned before the call has no influence.
C27_ShotsDependOnStreamAndDraws ==
    /\ lastCall.name = "measure_shots"
           => \E nan_int \in NanChoices(opcodes) :
                 [hist |-> ret, err |-> result] =
                     FreshRun(lastCall.parameters[1], CallTape(shotlog),
                              nan_int, FALSE, <<>>)
    /\ (/\ lastCall.name = "measure_shots_list"
        /\ preprocess_measure_list(lastCall.qubits, nqubit).err = "ok")
           => \E nan_int \in NanChoices(opcodes) :
                 [hist |-> ret, err |-> result] =
                     FreshRun(lastCall.parameters[1], CallTape(shotlog),
                              nan_int, TRUE,
                              preprocess_measure_list(lastCall.qubits,
                                                      nqubit).map)

C27_Witness ==
    /\ lastCall.name = "measure_shots" /\ result = "ok"
    /\ measure_qubits # <<>>
    /\ Len(shotlog) = 2
    /\ shotlog[1].mdraws # shotlog[2].mdraws
    /\ Cardinality(DOMAIN ret) = 2

\* sum |psi[i]|^2 = 1: the sum is 2^e in the units 1/2^e of the amplitudes.
Normalized(sim) == NormOver(sim.state, DOMAIN sim.state) = <<pow2(sim.e), 0>>

\* No noise opcode stands in the stream.
ZeroNoise == \A k \in 1..Len(opcodes) : IsGate(opcodes[k])

\* C28: after an execute_once that replayed a stream without noise opcodes
\* the squared magnitudes of the state vector sum to 1; and the state a
\* Damping opcode leaves to the next opcode has squared magnitudes that
\* sum to 1.
C28_NormIsOne ==
    Replayed
        => /\ (result = "ok" /\ ZeroNoise) => Normalized(simulator)
           /\ \A j \in 1..Len(shotlog[1].applied) :
                 OpcodeAt(j).op = "Damping" => Normalized(After(j))

C28_Witness ==
    /\ Replayed /\ result = "ok"
    /\ \E j \in 1..Len(shotlog[1].applied) :
          /\ OpcodeAt(j).op = "Damping"
          /\ OpcodeAt(j).parameters = <<Half>>
          /\ Before(j).state[1] # ZERO
          /\ After(j) = Before(j)

\* C29: an RPHI opcode, recorded by rphi(q, phi, theta) with the parameters
\* (phi, theta), is replayed as the kernel's rotation by the recorded theta
\* about the axis of the recorded phi.
C29_RphiAnglesReachKernel ==
    Replayed
        => \A j \in 1..Len(shotlog[1].applied) :
              OpcodeAt(j).op = "RPHI"
                  => After(j) =
                        simulator_rphi(Before(j), OpcodeAt(j).qubits[1],
                                       OpcodeAt(j).parameters[2],
                                       OpcodeAt(j).parameters[1],
                                       OpcodeAt(j).global_controller,
                                       OpcodeAt(j).dagger).sim

\* C30: on every state the shots sampled from and for every draw r in
\* [0, 1), get_measure_no_readout_error fails or returns an index i with
\* |psi[i]|^2 > 0.
C30_SampledAmplitudeNonzero ==
    \A sim \in SampledStates : \A r \in 0..(Den - 1) :
        get_measure_no_readout_error(sim, r).err = "ok"
            => Sqrt2Pos(
                   abs_sqr(sim.state[
                       get_measure_no_readout_error(sim, r).val])[1],
                   abs_sqr(sim.state[
                       get_measure_no_readout_error(sim, r).val])[2])

\* C30 witness: two shots on a state whose amplitude 0 is zero, one with the
\* least and one with the greatest draw, both sampled index 1.
C30_Witness ==
    /\ lastCall.name = "measure_shots_list" /\ result = "ok"
    /\ measurement_error_matrices = <<>>
    /\ Len(shotlog) = 2
    /\ shotlog[1].mdraws = <<0>> /\ shotlog[2].mdraws = <<Den - 1>>
    /\ \A k \in 1..2 :
          /\ shotlog[k].states[Len(shotlog[k].states)].state[0] = ZERO
          /\ shotlog[k].meas = <<1>>

SingleQubitChannels == {"Depolarizing", "Damping", "BitFlip", "PhaseFlip"}

\* One application of the single-qubit channel op to qubit q under draw r.
OneChannel(op, sim, q, p, r) ==
    CASE op = "Depolarizing" -> depolarizing(sim, q, p, r)
      [] op = "Damping" -> damping(sim, q, p, r)
      [] op = "BitFlip" -> bitflip(sim, q, p, r)
      [] op = "PhaseFlip" -> phaseflip(sim, q, p, r)

\* The draw the replay made for entry i of the qubits of opcode k.
DrawFor(k, i) == shotlog[1].draws[DrawsNeeded(SubSeq(opcodes, 1, k - 1)) + i]

\* The state after the channel of opcode k ran on its first i qubits,
\* starting from sim, for i up to 3.
AfterQubits(k, sim, i) ==
    IF i = 0 THEN sim
    ELSE IF i = 1
    THEN OneChannel(opcodes[k].op, sim, opcodes[k].qubits[1],
                    opcodes[k].parameters[1], DrawFor(k, 1)).sim
    ELSE IF i = 2
    THEN OneChannel(opcodes[k].op,
                    OneChannel(opcodes[k].op, sim, opcodes[k].qubits[1],
                               opcodes[k].parameters[1], DrawFor(k, 1)).sim,
                    opcodes[k].qubits[2], opcodes[k].parameters[1],
                    DrawFor(k, 2)).sim
    ELSE OneChannel(opcodes[k].op,
                    OneChannel(opcodes[k].op,
                               OneChannel(opcodes[k].op, sim,
                                          opcodes[k].qubits[1],
                                          opcodes[k].parameters[1],
                                          DrawFor(k, 1)).sim,
                               opcodes[k].qubits[2],
                               opcodes[k].parameters[1], DrawFor(k, 2)).sim,
                    opcodes[k].qubits[3], opcodes[k].parameters[1],
                    DrawFor(k, 3)).sim

\* C31: a replayed Depolarizing, Damping, BitFlip or PhaseFlip opcode on
\* several qubits has made one draw per listed qubit and leaves the state
\* that the single-qubit channel leaves when it is applied to the listed
\* qubits one after the other in list order, each time under the next draw.
C31_ChannelPerListedQubit ==
    Replayed
        => /\ Len(shotlog[1].draws) >=
                  DrawsNeeded(SubSeq(opcodes, 1, Len(shotlog[1].applied)))
           /\ \A j \in 1..Len(shotlog[1].applied) :
                 (/\ OpcodeAt(j).op \in SingleQubitChannels
                  /\ Len(OpcodeAt(j).qubits) \in 2..3)
                     => After(j) = AfterQubits(shotlog[1].applied[j],
                                               Before(j),
                                               Len(OpcodeAt(j).qubits))

\* C31 witness: a BitFlip on two qubits whose first draw flipped the first
\* qubit and whose second draw left the second one.
C31_Witness ==
    /\ Replayed /\ result = "ok"
    /\ \E j \in 1..Len(shotlog[1].applied) :
          /\ OpcodeAt(j).op = "BitFlip"
          /\ Len(OpcodeAt(j).qubits) = 2
          /\ DrawFor(shotlog[1].applied[j], 1) = 0
          /\ DrawFor(shotlog[1].applied[j], 2) = Den - 1
          /\ After(j) = bitflip(Before(j), OpcodeAt(j).qubits[1],
                                OpcodeAt(j).parameters[1], 0).sim
          /\ After(j) # Before(j)

\* A TwoQubitDepolarizing opcode whose qubits list has not 2 entries.
Unpaired(oc) == oc.op = "TwoQubitDepolarizing" /\ Len(oc.qubits) # 2

\* The maps name TwoQubitDepolarizing for the 1-qubit gate of call c.
NamedFor1q(c) ==
    /\ c.op \in Gates1q
    /\ \/ /\ policy = "GateDependent"
          /\ c.op \in DOMAIN gate_dependent_noise
          /\ "TwoQubitDepolarizing" \in DOMAIN gate_dependent_noise[c.op]
       \/ /\ policy = "GateSpecific"
          /\ <<c.op, c.qubits[1]>> \in DOMAIN gate_error1q
          /\ "TwoQubitDepolarizing"
                 \in DOMAIN gate_error1q[<<c.op, c.qubits[1]>>]

====
